---------------------------- MODULE Spec2Model ----------------------------
(***************************************************************************)
(* A model of the minilang front end: the scanner (src/src/scanner.rs),    *)
(* the recursive-descent parser (src/src/parser.rs) and the type checker   *)
(* (src/src/typecheck.rs), with the driver loop of src/src/main.rs.        *)
(*                                                                         *)
(* Characters are one-character strings, a String is a sequence of         *)
(* characters, a struct is a record with the struct's field names, an enum *)
(* value is a record with a "kind" field (or a string when it has no       *)
(* payload).  A function that returns Result<T> is an operator returning a *)
(* record [ok |-> BOOLEAN, ...] together with the receiver's new state.    *)
(*                                                                         *)
(* The specifications share the variables:                                 *)
(*   SpecScan       the driver's get_tokens loop pulling next_token        *)
(*   SpecScanWords  the same loop on texts of words and numbers            *)
(*   SpecParse      Parser::new followed by Parser::parse_program          *)
(*   SpecParseBad   the same on token sequences with one wrong token       *)
(*   SpecParseAny   the same with a token of any kind, or a text cut off   *)
(*   SpecExpr       Parser::parse_expr on unparenthesised operator chains  *)
(*   SpecInt        Parser::parse_int on digit strings around i64::MAX     *)
(*   Spec           TypeChecker::new followed by TypeChecker::tc_program   *)
(*   SpecDriver     CompileManager::typecheck: the three stages in turn    *)
(***************************************************************************)
EXTENDS Integers, Sequences, FiniteSets, TLC

VARIABLES
    scanner,    \* the Scanner struct: data, index, start_pos, curr_pos
    sc_tokens,  \* get_tokens' local vector `tokens`
    sc_status,  \* get_tokens' position: "scanning", "done", "error", "loop"
    sc_error,   \* the Error get_tokens returned, NoError until then
    source,     \* the source (a program, a chain, a literal) the tokens spell
    parser,     \* the Parser struct: tokens, index
    p_result,   \* what the parser's call returned, NotRun before the call
    program,    \* the Program handed to tc_program
    tc,         \* the TypeChecker struct: symtable, expr_table
    tc_pc,      \* tc_program's position: "idle", "decls", "stmts", "ok", "error"
    tc_decl_i,  \* tc_decls' loop index into program.decls
    tc_todo,    \* the statements tc_stmts has still to visit, in walk order
    tc_cur,    \* the statement tc_stmt was called on last, NoStmt before
    tc_error    \* the Error tc_program returned, NoError until then

vars == <<scanner, sc_tokens, sc_status, sc_error, source, parser, p_result,
          program, tc, tc_pc, tc_decl_i, tc_todo, tc_cur, tc_error>>

scan_vars == <<scanner, sc_tokens, sc_status, sc_error>>
parse_vars == <<source, parser, p_result>>
tc_vars == <<program, tc, tc_pc, tc_decl_i, tc_todo, tc_cur, tc_error>>

---------------------------------------------------------------------------
(* Bounds of the model.                                                    *)

\* Longest source text (in characters) handed to the scanner.
MaxSrcLen == 3

\* Most nodes (declarations, statements, expression nodes) of a program.
MaxSize == 4

---------------------------------------------------------------------------
(* pos.rs, error.rs                                                        *)

Pos(l, c) == [line |-> l, col |-> c]

NoError == [kind |-> "NoError"]

IllegalCharacter(pos, c) == [kind |-> "IllegalCharacter", pos |-> pos, char |-> c]

UnexpectedToken(tok, expected) ==
    [kind |-> "UnexpectedToken", token |-> tok, expected |-> expected]

InvalidIntLiteral(pos, s) == [kind |-> "InvalidIntLiteral", pos |-> pos, text |-> s]

InvalidFloatLiteral(pos, s) == [kind |-> "InvalidFloatLiteral", pos |-> pos, text |-> s]

UnexpectedType(pos, expected, actual) ==
    [kind |-> "UnexpectedType", pos |-> pos, expected |-> expected, actual |-> actual]

DuplicateVariable(pos, id) == [kind |-> "DuplicateVariable", pos |-> pos, id |-> id]

UndeclaredVariable(pos, id) == [kind |-> "UndeclaredVariable", pos |-> pos, id |-> id]

---------------------------------------------------------------------------
(* token.rs                                                                *)

\* Token with lexeme: None
EmptyTok(t, pos) == [typ |-> t, lexeme |-> <<>>, has_lexeme |-> FALSE, pos |-> pos]

\* Token with lexeme: Some(lexeme)
LexemeTok(t, lexeme, pos) ==
    [typ |-> t, lexeme |-> lexeme, has_lexeme |-> TRUE, pos |-> pos]

---------------------------------------------------------------------------
(* scanner.rs                                                              *)

\* What chars().nth(index) yields past the last character.
NUL == "NUL"

Digits == {"0", "1", "2", "3", "4", "5", "6", "7", "8", "9"}

LowerCase == {"a", "b", "c", "d", "e", "f", "g", "h", "i", "j", "k", "l", "m",
              "n", "o", "p", "q", "r", "s", "t", "u", "v", "w", "x", "y", "z"}

UpperCase == {"A", "B", "C", "D", "E", "F", "G", "H", "I", "J", "K", "L", "M",
              "N", "O", "P", "Q", "R", "S", "T", "U", "V", "W", "X", "Y", "Z"}

\* char::is_whitespace on the characters of the model's alphabet
is_whitespace(c) == c \in {" ", "\n", "\t"}

is_digit(c) == c \in Digits

is_id_start(c) == c \in LowerCase \/ c = "_" \/ c \in UpperCase

is_id_char(c) == c \in LowerCase \/ c = "_" \/ is_digit(c) \/ c \in UpperCase

\* char::len_utf8: the bytes a character takes in the String
len_utf8(c) == IF c = "é" THEN 2 ELSE 1

RECURSIVE ByteLen(_)
\* String::len: the length of the text in bytes
ByteLen(str) == IF str = <<>> THEN 0 ELSE len_utf8(Head(str)) + ByteLen(Tail(str))

ScannerNew(data) ==
    [data |-> data, index |-> 0, start_pos |-> Pos(1, 1), curr_pos |-> Pos(1, 1)]

peek(s) == IF s.index < Len(s.data) THEN s.data[s.index + 1] ELSE NUL

is_eof(s) == s.index >= ByteLen(s.data)

\* advance: the scanner after the call (the character returned is peek(s))
\* A variant of advance that counts a newline as one more column
advance_one_line(s) ==
    [s EXCEPT !.index = IF is_eof(s) THEN @ ELSE @ + 1,
              !.curr_pos = Pos(@.line, @.col + 1)]

advance(s) ==
    [s EXCEPT !.index = IF is_eof(s) THEN @ ELSE @ + 1,
              !.curr_pos = IF peek(s) = "\n"
                           THEN Pos(@.line + 1, 1)
                           ELSE Pos(@.line, @.col + 1)]

RECURSIVE skip_whitespace(_)
skip_whitespace(s) ==
    IF is_whitespace(peek(s)) THEN skip_whitespace(advance(s)) ELSE s

\* Whether skip_comment's loop ends: a newline is at or after the cursor.
\* Past the last character peek yields NUL for ever and the loop never exits.
CommentEnds(s) == \E i \in (s.index + 1)..Len(s.data) : s.data[i] = "\n"

RECURSIVE skip_comment(_)
\* Defined where CommentEnds(s).
skip_comment(s) == IF peek(s) # "\n" THEN skip_comment(advance(s)) ELSE s

RECURSIVE skip_comments_and_whitespace(_)
\* [s |-> the scanner after the loop, ends |-> whether the loop ended]
skip_comments_and_whitespace(s) ==
    LET w == skip_whitespace(s)
    IN  IF peek(w) = "#"
        THEN IF CommentEnds(w)
             THEN skip_comments_and_whitespace(skip_comment(w))
             ELSE [s |-> w, ends |-> FALSE]
        ELSE [s |-> w, ends |-> TRUE]

empty_tok(s, t) == EmptyTok(t, s.start_pos)

lexeme_tok(s, t, lexeme) == LexemeTok(t, lexeme, s.start_pos)

\* [s |-> scanner after, ok |-> TRUE, tok |-> the token]
single_char_tok(s, t) == [s |-> advance(s), ok |-> TRUE, tok |-> empty_tok(s, t)]

RECURSIVE ScanWhile(_, _, _)
\* The loop `while <pred>(self.peek()) { val.push(self.advance()); }`, where
\* digits says which predicate: is_digit (TRUE) or is_id_char (FALSE).
ScanWhile(s, val, digits) ==
    IF (IF digits THEN is_digit(peek(s)) ELSE is_id_char(peek(s)))
    THEN ScanWhile(advance(s), Append(val, peek(s)), digits)
    ELSE [s |-> s, val |-> val]

\* A variant of scan_int_or_float that stops at the decimal point
scan_int_or_float_no_fraction(s) ==
    LET a == ScanWhile(s, <<>>, TRUE)
    IN  [s |-> a.s, ok |-> TRUE, tok |-> lexeme_tok(a.s, "Int", a.val)]

scan_int_or_float(s) ==
    LET a == ScanWhile(s, <<>>, TRUE)
    IN  IF peek(a.s) # "."
        THEN [s |-> a.s, ok |-> TRUE, tok |-> lexeme_tok(a.s, "Int", a.val)]
        ELSE LET b == ScanWhile(advance(a.s), Append(a.val, peek(a.s)), TRUE)
             IN  [s |-> b.s, ok |-> TRUE, tok |-> lexeme_tok(b.s, "Float", b.val)]

\* The keyword comparisons of scan_id_or_keyword, in order.
Keywords ==
    <<  <<<<"i","f">>, "If">>,
        <<<<"t","h","e","n">>, "Then">>,
        <<<<"e","l","s","e">>, "Else">>,
        <<<<"e","n","d">>, "End">>,
        <<<<"w","h","i","l","e">>, "While">>,
        <<<<"d","o">>, "Do">>,
        <<<<"d","o","n","e">>, "Done">>,
        <<<<"r","e","a","d">>, "Read">>,
        <<<<"p","r","i","n","t">>, "Print">>,
        <<<<"v","a","r">>, "Var">>,
        <<<<"i","n","t">>, "TypeInt">>,
        <<<<"f","l","o","a","t">>, "TypeFloat">> >>

scan_id_or_keyword(s) ==
    LET a == ScanWhile(s, <<>>, FALSE)
        hits == {i \in 1..Len(Keywords) : Keywords[i][1] = a.val}
    IN  IF hits # {}
        THEN [s |-> a.s, ok |-> TRUE,
              tok |-> empty_tok(a.s, Keywords[CHOOSE i \in hits : TRUE][2])]
        ELSE [s |-> a.s, ok |-> TRUE, tok |-> lexeme_tok(a.s, "Id", a.val)]

\* The single-character arms of next_token's match, in order.
SingleCharArms ==
    <<  <<"+", "Plus">>, <<"-", "Minus">>, <<"*", "Star">>, <<"/", "Slash">>,
        <<"=", "Equal">>, <<"(", "LParen">>, <<")", "RParen">>,
        <<":", "Colon">>, <<";", "Semicolon">> >>

\* A variant of next_token that steps over a character no rule matches
next_token_skipping(s0) ==
    LET sk == skip_comments_and_whitespace(s0)
        s == [sk.s EXCEPT !.start_pos = sk.s.curr_pos]
        c == peek(s)
        arms == {i \in 1..Len(SingleCharArms) : SingleCharArms[i][1] = c}
        ret(r) == [s |-> r.s, ends |-> TRUE, ok |-> r.ok,
                   tok |-> IF r.ok THEN r.tok ELSE EmptyTok("Eof", Pos(1, 1)),
                   err |-> IF r.ok THEN NoError ELSE r.err]
    IN  IF ~sk.ends
        THEN [s |-> sk.s, ends |-> FALSE, ok |-> FALSE,
              tok |-> EmptyTok("Eof", Pos(1, 1)), err |-> NoError]
        ELSE IF is_eof(s)
        THEN ret([s |-> s, ok |-> TRUE, tok |-> empty_tok(s, "Eof")])
        ELSE IF arms # {}
        THEN ret(single_char_tok(s, SingleCharArms[CHOOSE i \in arms : TRUE][2]))
        ELSE IF is_digit(c) THEN ret(scan_int_or_float(s))
        ELSE IF is_id_start(c) THEN ret(scan_id_or_keyword(s))
        ELSE ret([s |-> advance(s), ok |-> FALSE,
                  err |-> IllegalCharacter(s.curr_pos, c)])

\* Scanner::next_token.  [s |-> the scanner after the call, ends |-> whether
\* the call returns, ok |-> Ok or Err, tok |-> the token, err |-> the error]
next_token(s0) ==
    LET sk == skip_comments_and_whitespace(s0)
        s == [sk.s EXCEPT !.start_pos = sk.s.curr_pos]
        c == peek(s)
        arms == {i \in 1..Len(SingleCharArms) : SingleCharArms[i][1] = c}
        ret(r) == [s |-> r.s, ends |-> TRUE, ok |-> r.ok,
                   tok |-> IF r.ok THEN r.tok ELSE EmptyTok("Eof", Pos(1, 1)),
                   err |-> IF r.ok THEN NoError ELSE r.err]
    IN  IF ~sk.ends
        THEN [s |-> sk.s, ends |-> FALSE, ok |-> FALSE,
              tok |-> EmptyTok("Eof", Pos(1, 1)), err |-> NoError]
        ELSE IF is_eof(s)
        THEN ret([s |-> s, ok |-> TRUE, tok |-> empty_tok(s, "Eof")])
        ELSE IF arms # {}
        THEN ret(single_char_tok(s, SingleCharArms[CHOOSE i \in arms : TRUE][2]))
        ELSE IF is_digit(c) THEN ret(scan_int_or_float(s))
        ELSE IF is_id_start(c) THEN ret(scan_id_or_keyword(s))
        ELSE ret([s |-> s, ok |-> FALSE, err |-> IllegalCharacter(s.curr_pos, c)])


---------------------------------------------------------------------------
(* main.rs: CompileManager::get_tokens                                     *)

\* The characters source texts are drawn from: every single-character token,
\* the comma, blanks, a comment start, a digit, a letter, the decimal point,
\* a character no token rule matches and a two-byte character.
SrcChars == {"+", "-", "*", "/", "=", "(", ")", ":", ";", ",",
             " ", "\n", "#", "1", "a", ".", "@", "é"}

RECURSIVE SeqsUpTo(_, _)
\* The sequences over S of length at most n
SeqsUpTo(S, n) ==
    IF n = 0 THEN {<<>>}
    ELSE LET shorter == SeqsUpTo(S, n - 1)
         IN  shorter \cup {Append(q, x) : q \in shorter, x \in S}

\* The source texts of at most n characters
Sources(n) == SeqsUpTo(SrcChars, n)

ScanIdle ==
    /\ scanner = ScannerNew(<<>>)
    /\ sc_tokens = <<>>
    /\ sc_status = "idle"
    /\ sc_error = NoError

\* One iteration of get_tokens' loop whose next_token call returned Ok: the
\* token is pushed and the loop breaks on Eof.
GetTokensPush ==
    /\ sc_status = "scanning"
    /\ LET r == next_token(scanner)
       IN  /\ r.ends /\ r.ok
           /\ scanner' = r.s
           /\ sc_tokens' = Append(sc_tokens, r.tok)
           /\ sc_status' = IF r.tok.typ = "Eof" THEN "done" ELSE "scanning"
           /\ sc_error' = sc_error
    /\ UNCHANGED <<parse_vars, tc_vars>>

\* One iteration whose next_token call returned Err: try! returns it.
GetTokensErr ==
    /\ sc_status = "scanning"
    /\ LET r == next_token(scanner)
       IN  /\ r.ends /\ ~r.ok
           /\ scanner' = r.s
           /\ sc_error' = r.err
           /\ sc_status' = "error"
           /\ sc_tokens' = sc_tokens
    /\ UNCHANGED <<parse_vars, tc_vars>>

\* One iteration whose next_token call never returns.
GetTokensLoop ==
    /\ sc_status = "scanning"
    /\ LET r == next_token(scanner)
       IN  /\ ~r.ends
           /\ scanner' = r.s
           /\ sc_status' = "loop"
           /\ UNCHANGED <<sc_tokens, sc_error>>
    /\ UNCHANGED <<parse_vars, tc_vars>>


---------------------------------------------------------------------------
(* ast.rs, types.rs: the nodes the parser constructs.  A tuple variant     *)
(* such as Stmt::Read(StmtRead { pos, id }) is the record of its struct    *)
(* with the variant's name as "kind".                                      *)

VarDecl(pos, id, ty) == [kind |-> "Var", pos |-> pos, id |-> id, ty |-> ty]

FunDecl(pos, id, params, ty, decls, stmts) ==
    [kind |-> "Fun", pos |-> pos, id |-> id, params |-> params, ty |-> ty,
     decls |-> decls, stmts |-> stmts]

StmtRead(pos, id) == [kind |-> "Read", pos |-> pos, id |-> id]

StmtPrint(pos, e) == [kind |-> "Print", pos |-> pos, expr |-> e]

StmtAssign(pos, id, e) == [kind |-> "Assign", pos |-> pos, id |-> id, expr |-> e]

StmtIf(pos, e, then_stmts, else_stmts) ==
    [kind |-> "If", pos |-> pos, expr |-> e,
     then_stmts |-> then_stmts, else_stmts |-> else_stmts]

StmtWhile(pos, e, stmts) == [kind |-> "While", pos |-> pos, expr |-> e, stmts |-> stmts]

\* Stmt::Return with expr: None (has_expr FALSE) or Some(e)
StmtReturn(pos, has_expr, e) ==
    [kind |-> "Return", pos |-> pos, has_expr |-> has_expr, expr |-> e]

\* What a name denotes where the function that uses it has no binding for
\* it: no Expr of ast.rs.
Unbound(name) == [kind |-> "Unbound", name |-> name]

ExprId(pos, id) == [kind |-> "Id", pos |-> pos, id |-> id]

ExprInt(pos, value) == [kind |-> "Int", pos |-> pos, value |-> value]

ExprFloat(pos, value) == [kind |-> "Float", pos |-> pos, value |-> value]

ExprNegate(pos, e) == [kind |-> "Negate", pos |-> pos, expr |-> e]

ExprBinop(pos, op, e1, e2) ==
    [kind |-> "Binop", pos |-> pos, op |-> op, expr1 |-> e1, expr2 |-> e2]

---------------------------------------------------------------------------
(* str::parse::<i64> and str::parse::<f64> on the lexemes of the model.  A *)
(* number is kept as its canonical decimal digits, so that values beyond   *)
(* the model checker's 32-bit integers can be told apart.                  *)

\* The decimal digits of i64::MAX, 9223372036854775807
I64MaxDigits == <<"9","2","2","3","3","7","2","0","3","6","8","5","4","7",
                  "7","5","8","0","7">>

DigitValue(c) ==
    CASE c = "0" -> 0 [] c = "1" -> 1 [] c = "2" -> 2 [] c = "3" -> 3
      [] c = "4" -> 4 [] c = "5" -> 5 [] c = "6" -> 6 [] c = "7" -> 7
      [] c = "8" -> 8 [] c = "9" -> 9

RECURSIVE StripLeadingZeros(_)
StripLeadingZeros(ds) ==
    IF Len(ds) > 1 /\ Head(ds) = "0" THEN StripLeadingZeros(Tail(ds)) ELSE ds

RECURSIVE StripTrailingZeros(_)
StripTrailingZeros(ds) ==
    IF ds # <<>> /\ ds[Len(ds)] = "0"
    THEN StripTrailingZeros(SubSeq(ds, 1, Len(ds) - 1))
    ELSE ds

RECURSIVE DigitsLeq(_, _)
\* a <= b for two digit strings of the same length
DigitsLeq(a, b) ==
    IF a = <<>> THEN TRUE
    ELSE IF DigitValue(Head(a)) # DigitValue(Head(b))
         THEN DigitValue(Head(a)) < DigitValue(Head(b))
         ELSE DigitsLeq(Tail(a), Tail(b))

\* A variant of ParseI64 without the check against i64::MAX
ParseI64_unchecked(lexeme) ==
    IF lexeme = <<>> \/ \E i \in 1..Len(lexeme) : ~is_digit(lexeme[i])
    THEN [ok |-> FALSE, value |-> <<>>]
    ELSE [ok |-> TRUE, value |-> StripLeadingZeros(lexeme)]

\* lexeme.parse::<i64>() for a lexeme without sign: Err on an empty string,
\* on a character that is no digit and on a value above i64::MAX.
ParseI64(lexeme) ==
    IF lexeme = <<>> \/ \E i \in 1..Len(lexeme) : ~is_digit(lexeme[i])
    THEN [ok |-> FALSE, value |-> <<>>]
    ELSE LET ds == StripLeadingZeros(lexeme)
         IN  IF Len(ds) < Len(I64MaxDigits)
                \/ (Len(ds) = Len(I64MaxDigits) /\ DigitsLeq(ds, I64MaxDigits))
             THEN [ok |-> TRUE, value |-> ds]
             ELSE [ok |-> FALSE, value |-> <<>>]

\* lexeme.parse::<f64>() for a lexeme of digits with at most one decimal
\* point: Err when it holds no digit or another character.  The value is the
\* decimal it denotes (f64 rounding is not modelled).
ParseF64(lexeme) ==
    LET dots == {i \in 1..Len(lexeme) : lexeme[i] = "."}
    IN  IF \/ Cardinality(dots) > 1
           \/ \E i \in 1..Len(lexeme) : ~(is_digit(lexeme[i]) \/ lexeme[i] = ".")
           \/ \A i \in 1..Len(lexeme) : ~is_digit(lexeme[i])
        THEN [ok |-> FALSE, value |-> <<>>]
        ELSE LET d == IF dots = {} THEN Len(lexeme) + 1 ELSE CHOOSE i \in dots : TRUE
                 int == SubSeq(lexeme, 1, d - 1)
                 frac == SubSeq(lexeme, d + 1, Len(lexeme))
             IN  [ok |-> TRUE,
                  value |-> [int |-> StripLeadingZeros(IF int = <<>> THEN <<"0">> ELSE int),
                             frac |-> StripTrailingZeros(frac)]]

---------------------------------------------------------------------------
(* parser.rs.  A parse function is an operator from the Parser struct to   *)
(* [st, p, val, err]: st is "ok" (Ok(val)), "err" (Err(err)) or "panic"    *)
(* (an index into tokens out of bounds), p the Parser struct afterwards.   *)

ParserNew(tokens) == [tokens |-> tokens, index |-> 0]

POk(p, v) == [st |-> "ok", p |-> p, val |-> v, err |-> NoError]

PErr(p, e) == [st |-> "err", p |-> p, val |-> <<>>, err |-> e]

PPanic(p) == [st |-> "panic", p |-> p, val |-> <<>>, err |-> NoError]

\* Whether self.tokens[self.index] is an element of the vector
InBounds(p) == p.index < Len(p.tokens)

\* Parser::peek, where InBounds(p)
peek_tok(p, t) == p.tokens[p.index + 1].typ = t

\* Parser::curr_token, where InBounds(p)
curr_token(p) == p.tokens[p.index + 1]

\* Parser::token_pos, where InBounds(p)
token_pos(p) == p.tokens[p.index + 1].pos

\* A variant of eat that advances whatever the token is
eat_unchecked(p, t) ==
    IF ~InBounds(p) THEN PPanic(p)
    ELSE POk([p EXCEPT !.index = @ + 1], <<>>)

eat(p, t) ==
    IF ~InBounds(p) THEN PPanic(p)
    ELSE IF peek_tok(p, t)
         THEN POk([p EXCEPT !.index = @ + 1], <<>>)
         ELSE PErr(p, UnexpectedToken(curr_token(p), <<t>>))

eat_lexeme(p, t) ==
    IF ~InBounds(p) THEN PPanic(p)
    ELSE LET token == p.tokens[p.index + 1]
         IN  IF token.typ = t
             THEN IF token.has_lexeme
                  THEN POk([p EXCEPT !.index = @ + 1], token.lexeme)
                  ELSE PErr(p, UnexpectedToken(curr_token(p), <<t>>))
             ELSE PErr(p, UnexpectedToken(curr_token(p), <<t>>))

eat_type(p) ==
    IF ~InBounds(p) THEN PPanic(p)
    ELSE IF peek_tok(p, "TypeInt") THEN POk([p EXCEPT !.index = @ + 1], "Int")
    ELSE IF peek_tok(p, "TypeFloat") THEN POk([p EXCEPT !.index = @ + 1], "Float")
    ELSE IF peek_tok(p, "TypeVoid") THEN POk([p EXCEPT !.index = @ + 1], "Void")
    ELSE PErr(p, UnexpectedToken(curr_token(p), <<"TypeInt", "TypeFloat">>))

is_stmt_start(p) ==
    \/ peek_tok(p, "Id") \/ peek_tok(p, "If") \/ peek_tok(p, "While")
    \/ peek_tok(p, "Read") \/ peek_tok(p, "Print") \/ peek_tok(p, "Return")

next_is_add(p) == peek_tok(p, "Plus") \/ peek_tok(p, "Minus")

next_is_mul(p) == peek_tok(p, "Star") \/ peek_tok(p, "Slash")

\* The macro try!: on Ok the function goes on with the value (K), on Err it
\* returns the Err; a panic unwinds the same way.
Try(r, K(_)) == IF r.st # "ok" THEN r ELSE K(r)

parse_int(p) ==
    IF ~InBounds(p) THEN PPanic(p)
    ELSE Try(eat_lexeme(p, "Int"), LAMBDA r :
            LET n == ParseI64(r.val)
            IN  IF n.ok THEN POk(r.p, ExprInt(token_pos(p), n.value))
                ELSE PErr(r.p, InvalidIntLiteral(token_pos(p), r.val)))

parse_float(p) ==
    IF ~InBounds(p) THEN PPanic(p)
    ELSE Try(eat_lexeme(p, "Float"), LAMBDA r :
            LET n == ParseF64(r.val)
            IN  IF n.ok THEN POk(r.p, ExprFloat(token_pos(p), n.value))
                ELSE PErr(r.p, InvalidFloatLiteral(token_pos(p), r.val)))

parse_id(p) ==
    IF ~InBounds(p) THEN PPanic(p)
    ELSE Try(eat_lexeme(p, "Id"), LAMBDA r : POk(r.p, ExprId(token_pos(p), r.val)))

RECURSIVE parse_expr(_), parse_expr_loop(_, _, _), parse_term(_),
          parse_term_loop(_, _, _), parse_factor(_)

parse_expr(p) ==
    IF ~InBounds(p) THEN PPanic(p)
    ELSE Try(parse_term(p), LAMBDA r : parse_expr_loop(r.p, token_pos(p), r.val))

\* The loop `while self.next_is_add()` of parse_expr, expr being the tree
\* built so far.
parse_expr_loop(p, pos, expr) ==
    IF ~InBounds(p) THEN PPanic(p)
    ELSE IF ~next_is_add(p) THEN POk(p, expr)
    ELSE IF peek_tok(p, "Plus")
         THEN Try(eat(p, "Plus"), LAMBDA r1 :
              Try(parse_term(r1.p), LAMBDA term :
              parse_expr_loop(term.p, pos, ExprBinop(pos, "Add", expr, term.val))))
    ELSE IF peek_tok(p, "Minus")
         THEN Try(eat(p, "Minus"), LAMBDA r1 :
              Try(parse_term(r1.p), LAMBDA term :
              parse_expr_loop(term.p, pos, ExprBinop(pos, "Sub", expr, term.val))))
    ELSE PErr(p, UnexpectedToken(curr_token(p), <<"Plus", "Minus">>))

parse_term(p) ==
    IF ~InBounds(p) THEN PPanic(p)
    ELSE Try(parse_factor(p), LAMBDA r : parse_term_loop(r.p, token_pos(p), r.val))

\* The loop `while self.next_is_mul()` of parse_term, fact being the tree
\* built so far.  After the loop the source returns Ok(term), and term is a
\* name that parse_term never binds (its tree is held in fact): what the
\* caller receives is the value of an unbound name, not the tree.
parse_term_loop(p, pos, fact) ==
    IF ~InBounds(p) THEN PPanic(p)
    ELSE IF ~next_is_mul(p) THEN POk(p, Unbound("term"))
    ELSE IF peek_tok(p, "Star")
         THEN Try(eat(p, "Star"), LAMBDA r1 :
              Try(parse_factor(r1.p), LAMBDA f2 :
              parse_term_loop(f2.p, pos, ExprBinop(pos, "Mul", fact, f2.val))))
    ELSE IF peek_tok(p, "Slash")
         THEN Try(eat(p, "Slash"), LAMBDA r1 :
              Try(parse_factor(r1.p), LAMBDA f2 :
              parse_term_loop(f2.p, pos, ExprBinop(pos, "Div", fact, f2.val))))
    ELSE PErr(p, UnexpectedToken(curr_token(p), <<"Star", "Slash">>))

parse_factor(p) ==
    IF ~InBounds(p) THEN PPanic(p)
    ELSE IF peek_tok(p, "Int") THEN parse_int(p)
    ELSE IF peek_tok(p, "Float") THEN parse_float(p)
    ELSE IF peek_tok(p, "Id") THEN parse_id(p)
    ELSE IF peek_tok(p, "LParen")
         THEN Try(eat(p, "LParen"), LAMBDA r1 :
              Try(parse_expr(r1.p), LAMBDA e :
              Try(eat(e.p, "RParen"), LAMBDA r2 :
              POk(r2.p, e.val))))
    ELSE IF peek_tok(p, "Minus")
         THEN Try(eat(p, "Minus"), LAMBDA r1 :
              Try(parse_expr(r1.p), LAMBDA e :
              POk(e.p, ExprNegate(token_pos(p), e.val))))
    ELSE PErr(p, UnexpectedToken(curr_token(p),
                     <<"Int", "Float", "Id", "Minus", "LParen">>))

parse_read(p) ==
    IF ~InBounds(p) THEN PPanic(p)
    ELSE Try(eat(p, "Read"), LAMBDA r1 :
         Try(eat_lexeme(r1.p, "Id"), LAMBDA id :
         Try(eat(id.p, "Semicolon"), LAMBDA r2 :
         POk(r2.p, StmtRead(token_pos(p), id.val)))))

parse_print(p) ==
    IF ~InBounds(p) THEN PPanic(p)
    ELSE Try(eat(p, "Print"), LAMBDA r1 :
         Try(parse_expr(r1.p), LAMBDA e :
         Try(eat(e.p, "Semicolon"), LAMBDA r2 :
         POk(r2.p, StmtPrint(token_pos(p), e.val)))))

parse_assign(p) ==
    IF ~InBounds(p) THEN PPanic(p)
    ELSE Try(eat_lexeme(p, "Id"), LAMBDA id :
         Try(eat(id.p, "Equal"), LAMBDA r1 :
         Try(parse_expr(r1.p), LAMBDA e :
         Try(eat(e.p, "Semicolon"), LAMBDA r2 :
         POk(r2.p, StmtAssign(token_pos(p), id.val, e.val))))))

parse_return(p) ==
    IF ~InBounds(p) THEN PPanic(p)
    ELSE Try(eat(p, "Return"), LAMBDA r1 :
         IF ~InBounds(r1.p) THEN PPanic(r1.p)
         ELSE Try(IF peek_tok(r1.p, "Semicolon") THEN POk(r1.p, <<>>)
                  ELSE parse_expr(r1.p), LAMBDA e :
              Try(eat(e.p, "Semicolon"), LAMBDA r2 :
              POk(r2.p, StmtReturn(token_pos(p), ~peek_tok(r1.p, "Semicolon"),
                                   e.val)))))

RECURSIVE parse_stmts(_), parse_stmts_loop(_, _), parse_stmt(_), parse_if(_),
          parse_while(_)

parse_stmts(p) == parse_stmts_loop(p, <<>>)

\* The loop `while self.is_stmt_start()` of parse_stmts, stmts being the
\* vector built so far.
parse_stmts_loop(p, stmts) ==
    IF ~InBounds(p) THEN PPanic(p)
    ELSE IF ~is_stmt_start(p) THEN POk(p, stmts)
    ELSE Try(parse_stmt(p), LAMBDA stmt :
             parse_stmts_loop(stmt.p, Append(stmts, stmt.val)))

parse_stmt(p) ==
    IF ~InBounds(p) THEN PPanic(p)
    ELSE IF peek_tok(p, "Read") THEN parse_read(p)
    ELSE IF peek_tok(p, "Print") THEN parse_print(p)
    ELSE IF peek_tok(p, "Id") THEN parse_assign(p)
    ELSE IF peek_tok(p, "If") THEN parse_if(p)
    ELSE IF peek_tok(p, "While") THEN parse_while(p)
    ELSE IF peek_tok(p, "Return") THEN parse_return(p)
    ELSE PErr(p, UnexpectedToken(curr_token(p),
                     <<"Read", "Print", "Id", "If", "While">>))

parse_if(p) ==
    IF ~InBounds(p) THEN PPanic(p)
    ELSE Try(eat(p, "If"), LAMBDA r1 :
         Try(parse_expr(r1.p), LAMBDA e :
         Try(eat(e.p, "Then"), LAMBDA r2 :
         Try(parse_stmts(r2.p), LAMBDA then_stmts :
         Try(eat(then_stmts.p, "Else"), LAMBDA r3 :
         Try(parse_stmts(r3.p), LAMBDA else_stmts :
         Try(eat(else_stmts.p, "End"), LAMBDA r4 :
         POk(r4.p, StmtIf(token_pos(p), e.val, then_stmts.val,
                          else_stmts.val)))))))))

parse_while(p) ==
    IF ~InBounds(p) THEN PPanic(p)
    ELSE Try(eat(p, "While"), LAMBDA r1 :
         Try(parse_expr(r1.p), LAMBDA e :
         Try(eat(e.p, "Do"), LAMBDA r2 :
         Try(parse_stmts(r2.p), LAMBDA stmts :
         Try(eat(stmts.p, "Done"), LAMBDA r3 :
         POk(r3.p, StmtWhile(token_pos(p), e.val, stmts.val)))))))

parse_var_decl(p) ==
    IF ~InBounds(p) THEN PPanic(p)
    ELSE Try(eat(p, "Var"), LAMBDA r1 :
         Try(eat_lexeme(r1.p, "Id"), LAMBDA id :
         Try(eat(id.p, "Colon"), LAMBDA r2 :
         Try(eat_type(r2.p), LAMBDA ty :
         Try(eat(ty.p, "Semicolon"), LAMBDA r3 :
         POk(r3.p, VarDecl(token_pos(p), id.val, ty.val)))))))

RECURSIVE parse_var_decls_loop(_, _)
\* The loop `while self.peek(TokenType::Var)` of parse_var_decls
parse_var_decls_loop(p, vds) ==
    IF ~InBounds(p) THEN PPanic(p)
    ELSE IF ~peek_tok(p, "Var") THEN POk(p, vds)
    ELSE Try(parse_var_decl(p), LAMBDA vd :
             parse_var_decls_loop(vd.p, Append(vds, vd.val)))

parse_var_decls(p) == parse_var_decls_loop(p, <<>>)

RECURSIVE parse_params_loop(_, _)
\* The loop `while self.peek(TokenType::Id)` of parse_params, which breaks
\* when no comma follows a parameter.
parse_params_loop(p, params) ==
    IF ~InBounds(p) THEN PPanic(p)
    ELSE IF ~peek_tok(p, "Id") THEN POk(p, params)
    ELSE Try(eat_lexeme(p, "Id"), LAMBDA id :
         Try(eat(id.p, "Colon"), LAMBDA r1 :
         Try(eat_type(r1.p), LAMBDA ty :
         IF ~InBounds(ty.p) THEN PPanic(ty.p)
         ELSE IF peek_tok(ty.p, "Comma")
              THEN Try(eat(ty.p, "Comma"), LAMBDA r2 :
                       parse_params_loop(r2.p, Append(params, <<id.val, ty.val>>)))
              ELSE POk(ty.p, Append(params, <<id.val, ty.val>>)))))

parse_params(p) == parse_params_loop(p, <<>>)

parse_func_decl(p) ==
    IF ~InBounds(p) THEN PPanic(p)
    ELSE Try(eat(p, "Function"), LAMBDA r1 :
         Try(eat_lexeme(r1.p, "Id"), LAMBDA id :
         Try(eat(id.p, "LParen"), LAMBDA r2 :
         Try(parse_params(r2.p), LAMBDA params :
         Try(eat(params.p, "RParen"), LAMBDA r3 :
         Try(eat(r3.p, "Colon"), LAMBDA r4 :
         Try(eat_type(r4.p), LAMBDA ty :
         Try(parse_var_decls(ty.p), LAMBDA decls :
         Try(parse_stmts(decls.p), LAMBDA stmts :
         Try(eat(stmts.p, "End"), LAMBDA r5 :
         POk(r5.p, FunDecl(token_pos(p), id.val, params.val, ty.val,
                           decls.val, stmts.val))))))))))))

parse_decl(p) ==
    IF ~InBounds(p) THEN PPanic(p)
    ELSE IF peek_tok(p, "Var") THEN parse_var_decl(p)
    ELSE IF peek_tok(p, "Function") THEN parse_func_decl(p)
    ELSE PErr(p, UnexpectedToken(curr_token(p), <<"Var", "Function">>))

RECURSIVE parse_decls_loop(_, _)
\* The loop `while self.peek(Var) || self.peek(Function)` of parse_decls
parse_decls_loop(p, decls) ==
    IF ~InBounds(p) THEN PPanic(p)
    ELSE IF ~(peek_tok(p, "Var") \/ peek_tok(p, "Function")) THEN POk(p, decls)
    ELSE Try(parse_decl(p), LAMBDA decl :
             parse_decls_loop(decl.p, Append(decls, decl.val)))

parse_decls(p) == parse_decls_loop(p, <<>>)

\* Parser::parse_program: the declarations, then the Eof token.  The Program
\* it builds holds the field decls alone.
parse_program(p) ==
    Try(parse_decls(p), LAMBDA decls :
    Try(eat(decls.p, "Eof"), LAMBDA r :
    POk(r.p, [decls |-> decls.val])))

---------------------------------------------------------------------------
(* typecheck.rs.  A check function is an operator from the TypeChecker     *)
(* struct t (symtable, expr_table) and a node to [ok, ty, err, t]: Ok(ty)  *)
(* or Err(err), and the struct afterwards.  The matches of typecheck.rs    *)
(* name the types Int and Float only.  The `else` arms that return         *)
(* GenericError are taken when a function is handed a node of another      *)
(* kind than the one tc_stmt and tc_expr dispatch to it, which is never.   *)

TypeCheckerNew == [symtable |-> <<>>, expr_table |-> <<>>]

\* HashMap::contains_key
contains_key(map, k) == k \in DOMAIN map

\* HashMap::insert: the map afterwards (an entry under k is replaced)
insert(map, k, v) == (k :> v) @@ map

TcOk(t, ty) == [ok |-> TRUE, ty |-> ty, err |-> NoError, t |-> t]

TcErr(t, e) == [ok |-> FALSE, ty |-> "None", err |-> e, t |-> t]

\* A variant of tc_decl that rebinds a name already in the symbol table
tc_decl_rebinding(t, decl) ==
    TcOk([t EXCEPT !.symtable = insert(@, decl.id, decl.ty)], "Unit")

\* tc_decl: Ok(()) is TcOk with the type "Unit"
tc_decl(t, decl) ==
    IF contains_key(t.symtable, decl.id)
    THEN TcErr(t, DuplicateVariable(decl.pos, decl.id))
    ELSE TcOk([t EXCEPT !.symtable = insert(@, decl.id, decl.ty)], "Unit")

RECURSIVE tc_expr(_, _)

\* A variant of tc_expr_id that takes an unbound name for an Int variable
tc_expr_id_implicit_int(t, expr) ==
    IF contains_key(t.symtable, expr.id)
    THEN TcOk(t, t.symtable[expr.id])
    ELSE TcOk(t, "Int")

tc_expr_id(t, expr) ==
    IF contains_key(t.symtable, expr.id)
    THEN TcOk(t, t.symtable[expr.id])
    ELSE TcErr(t, UndeclaredVariable(expr.pos, expr.id))

tc_expr_negate(t, expr) == tc_expr(t, expr.expr)

\* A variant of tc_expr_binop without promotion of (Int, Float)
tc_expr_binop_left_type(t, expr) ==
    LET r1 == tc_expr(t, expr.expr1)
    IN  IF ~r1.ok THEN r1
        ELSE LET r2 == tc_expr(r1.t, expr.expr2)
             IN  IF ~r2.ok THEN r2
                 ELSE CASE r1.ty = "Int" /\ r2.ty = "Int" -> TcOk(r2.t, "Int")
                        [] r1.ty = "Int" /\ r2.ty = "Float" -> TcOk(r2.t, "Int")
                        [] r1.ty = "Float" /\ r2.ty = "Int" -> TcOk(r2.t, "Float")
                        [] r1.ty = "Float" /\ r2.ty = "Float" -> TcOk(r2.t, "Float")

\* A variant of tc_expr_binop that checks expr2 before expr1
tc_expr_binop_right_first(t, expr) ==
    LET r2 == tc_expr(t, expr.expr2)
    IN  IF ~r2.ok THEN r2
        ELSE LET r1 == tc_expr(r2.t, expr.expr1)
             IN  IF ~r1.ok THEN r1
                 ELSE CASE r1.ty = "Int" /\ r2.ty = "Int" -> TcOk(r1.t, "Int")
                        [] r1.ty = "Int" /\ r2.ty = "Float" -> TcOk(r1.t, "Float")
                        [] r1.ty = "Float" /\ r2.ty = "Int" -> TcOk(r1.t, "Float")
                        [] r1.ty = "Float" /\ r2.ty = "Float" -> TcOk(r1.t, "Float")

tc_expr_binop(t, expr) ==
    LET r1 == tc_expr(t, expr.expr1)
    IN  IF ~r1.ok THEN r1
        ELSE LET r2 == tc_expr(r1.t, expr.expr2)
             IN  IF ~r2.ok THEN r2
                 ELSE CASE r1.ty = "Int" /\ r2.ty = "Int" -> TcOk(r2.t, "Int")
                        [] r1.ty = "Int" /\ r2.ty = "Float" -> TcOk(r2.t, "Float")
                        [] r1.ty = "Float" /\ r2.ty = "Int" -> TcOk(r2.t, "Float")
                        [] r1.ty = "Float" /\ r2.ty = "Float" -> TcOk(r2.t, "Float")

\* A variant of tc_expr whose table key is the node without its position
tc_expr_key_without_pos(t, expr) ==
    LET r == CASE expr.kind = "Int" -> TcOk(t, "Int")
               [] expr.kind = "Float" -> TcOk(t, "Float")
               [] expr.kind = "Id" -> tc_expr_id(t, expr)
               [] expr.kind = "Negate" -> tc_expr_negate(t, expr)
               [] expr.kind = "Binop" -> tc_expr_binop(t, expr)
    IN  IF ~r.ok THEN r
        ELSE TcOk([r.t EXCEPT !.expr_table =
                        insert(@, [expr EXCEPT !.pos = Pos(0, 0)], r.ty)], r.ty)

tc_expr(t, expr) ==
    LET r == CASE expr.kind = "Int" -> TcOk(t, "Int")
               [] expr.kind = "Float" -> TcOk(t, "Float")
               [] expr.kind = "Id" -> tc_expr_id(t, expr)
               [] expr.kind = "Negate" -> tc_expr_negate(t, expr)
               [] expr.kind = "Binop" -> tc_expr_binop(t, expr)
    IN  IF ~r.ok THEN r
        ELSE TcOk([r.t EXCEPT !.expr_table = insert(@, expr, r.ty)], r.ty)

\* The statement functions return [ok, err, t, next]: next are the
\* statements the function goes on to check through tc_stmts, in order.
StOk(t, next) == [ok |-> TRUE, err |-> NoError, t |-> t, next |-> next]

StErr(t, e) == [ok |-> FALSE, err |-> e, t |-> t, next |-> <<>>]

\* A variant of tc_stmt_assign that accepts a Float for an Int variable
tc_stmt_assign_narrowing(t, stmt) ==
    LET r == tc_expr(t, stmt.expr)
    IN  IF ~r.ok THEN StErr(r.t, r.err)
        ELSE IF contains_key(r.t.symtable, stmt.id)
        THEN StOk(r.t, <<>>)
        ELSE StErr(r.t, UndeclaredVariable(stmt.pos, stmt.id))

\* A variant of tc_stmt_assign that looks the target up before it checks
\* the expression
tc_stmt_assign_target_first(t, stmt) ==
    IF ~contains_key(t.symtable, stmt.id)
    THEN StErr(t, UndeclaredVariable(stmt.pos, stmt.id))
    ELSE LET r == tc_expr(t, stmt.expr)
         IN  IF ~r.ok THEN StErr(r.t, r.err)
             ELSE IF r.t.symtable[stmt.id] = "Int" /\ r.ty = "Float"
                  THEN StErr(r.t, UnexpectedType(stmt.pos, "Int", "Float"))
                  ELSE StOk(r.t, <<>>)

tc_stmt_assign(t, stmt) ==
    LET r == tc_expr(t, stmt.expr)
    IN  IF ~r.ok THEN StErr(r.t, r.err)
        ELSE IF contains_key(r.t.symtable, stmt.id)
        THEN LET id_ty == r.t.symtable[stmt.id]
             IN  CASE id_ty = "Int" /\ r.ty = "Int" -> StOk(r.t, <<>>)
                   [] id_ty = "Int" /\ r.ty = "Float" ->
                        StErr(r.t, UnexpectedType(stmt.pos, "Int", "Float"))
                   [] id_ty = "Float" /\ r.ty = "Int" -> StOk(r.t, <<>>)
                   [] id_ty = "Float" /\ r.ty = "Float" -> StOk(r.t, <<>>)
        ELSE StErr(r.t, UndeclaredVariable(stmt.pos, stmt.id))

tc_stmt_read(t, stmt) ==
    IF contains_key(t.symtable, stmt.id)
    THEN StOk(t, <<>>)
    ELSE StErr(t, UndeclaredVariable(stmt.pos, stmt.id))

tc_stmt_print(t, stmt) ==
    LET r == tc_expr(t, stmt.expr)
    IN  IF ~r.ok THEN StErr(r.t, r.err) ELSE StOk(r.t, <<>>)

\* A variant of tc_stmt_if that checks the branches whatever the condition's
\* type
tc_stmt_if_any_condition(t, stmt) ==
    LET r == tc_expr(t, stmt.expr)
    IN  IF ~r.ok THEN StErr(r.t, r.err)
        ELSE StOk(r.t, stmt.then_stmts \o stmt.else_stmts)

tc_stmt_if(t, stmt) ==
    LET r == tc_expr(t, stmt.expr)
    IN  IF ~r.ok THEN StErr(r.t, r.err)
        ELSE IF r.ty = "Int"
        THEN StOk(r.t, stmt.then_stmts \o stmt.else_stmts)
        ELSE StErr(r.t, UnexpectedType(stmt.pos, "Int", r.ty))

tc_stmt_while(t, stmt) ==
    LET r == tc_expr(t, stmt.expr)
    IN  IF ~r.ok THEN StErr(r.t, r.err)
        ELSE IF r.ty = "Int"
        THEN StOk(r.t, stmt.stmts)
        ELSE StErr(r.t, UnexpectedType(stmt.pos, "Int", r.ty))

tc_stmt(t, stmt) ==
    CASE stmt.kind = "Assign" -> tc_stmt_assign(t, stmt)
      [] stmt.kind = "Read" -> tc_stmt_read(t, stmt)
      [] stmt.kind = "Print" -> tc_stmt_print(t, stmt)
      [] stmt.kind = "If" -> tc_stmt_if(t, stmt)
      [] stmt.kind = "While" -> tc_stmt_while(t, stmt)

---------------------------------------------------------------------------
(* The programs of the model.  A source program is a tree without          *)
(* positions (a shape), of at most MaxSize nodes: declarations, statements *)
(* and expression nodes each count one.  TokensOf writes a shape as the    *)
(* token sequence of its text, following the grammar in parser.rs's        *)
(* comments; the token at index i of the sequence lies at line 1, column   *)
(* i.  ProgramOf is the Program that text denotes: the shape with each     *)
(* node at the position of its first token, as parse_* record it.          *)

Names == {<<"x">>, <<"y">>}

\* Literals: the lexeme and the value it denotes.
IntLits == {[lexeme |-> <<"1">>, value |-> <<"1">>]}

FloatLits == {[lexeme |-> <<"1", ".", "5">>,
               value |-> [int |-> <<"1">>, frac |-> <<"5">>]]}

Binops == {"Add", "Sub", "Mul", "Div"}

DeclTypes == {"Int", "Float"}

RECURSIVE ExprShapesTo(_)
\* The sequence whose k-th element is the set of the expressions of exactly
\* k nodes, for k in 1..n
ExprShapesTo(n) ==
    IF n = 0 THEN <<>>
    ELSE LET E == ExprShapesTo(n - 1)
         IN  Append(E,
                IF n = 1
                THEN {[kind |-> "Int", lit |-> l] : l \in IntLits}
                     \cup {[kind |-> "Float", lit |-> l] : l \in FloatLits}
                     \cup {[kind |-> "Id", id |-> x] : x \in Names}
                ELSE {[kind |-> "Negate", expr |-> e] : e \in E[n - 1]}
                     \cup UNION {
                            {[kind |-> "Binop", op |-> op, expr1 |-> l, expr2 |-> r] :
                                op \in Binops, l \in E[k], r \in E[n - 1 - k]}
                            : k \in 1..(n - 2)})

RECURSIVE StmtShapesTo(_, _)
\* [stmt, list]: stmt[k] is the set of the statements of exactly k nodes, for
\* k in 1..n, and list[k + 1] the set of the statement sequences of exactly
\* k nodes, for k in 0..n; E[k] are the expressions of k nodes.  An If
\* without statements in its else branch is written with or without the
\* `else` keyword (has_else).
StmtShapesTo(n, E) ==
    IF n = 0 THEN [stmt |-> <<>>, list |-> <<{<<>>}>>]
    ELSE LET S == StmtShapesTo(n - 1, E)
             st == (IF n = 1 THEN {[kind |-> "Read", id |-> x] : x \in Names} ELSE {})
                \cup (IF n = 1 THEN {}
                      ELSE {[kind |-> "Print", expr |-> e] : e \in E[n - 1]}
                           \cup {[kind |-> "Assign", id |-> x, expr |-> e] :
                                    x \in Names, e \in E[n - 1]})
                \cup UNION {
                       {[kind |-> "While", expr |-> c, stmts |-> b] :
                           c \in E[k], b \in S.list[n - 1 - k + 1]}
                       : k \in 1..(n - 1)}
                \cup UNION {
                       {[kind |-> "If", expr |-> c, then_stmts |-> t,
                         else_stmts |-> e, has_else |-> h] :
                           c \in E[km[1]], t \in S.list[km[2] + 1],
                           e \in S.list[n - 1 - km[1] - km[2] + 1],
                           h \in IF n - 1 - km[1] - km[2] = 0 THEN BOOLEAN ELSE {TRUE}}
                       : km \in {x \in (1..(n - 1)) \X (0..(n - 2)) :
                                    x[1] + x[2] <= n - 1}}
             ls == UNION {
                       {<<s>> \o rest :
                           s \in (IF k = n THEN st ELSE S.stmt[k]),
                           rest \in S.list[n - k + 1]}
                       : k \in 1..n}
         IN  [stmt |-> Append(S.stmt, st), list |-> Append(S.list, ls)]

RECURSIVE DeclListShapes(_)
\* The sequences of n declarations
DeclListShapes(n) ==
    IF n = 0 THEN {<<>>}
    ELSE {Append(ds, [id |-> x, ty |-> t]) :
            ds \in DeclListShapes(n - 1), x \in Names, t \in DeclTypes}

\* The programs of at most n nodes
ProgramShapesUpTo(n) ==
    LET L == StmtShapesTo(n, ExprShapesTo(n)).list
    IN  UNION {
            {[decls |-> ds, stmts |-> ss] :
                ds \in DeclListShapes(km[1]), ss \in L[km[2] + 1]}
            : km \in {x \in (0..n) \X (0..n) : x[1] + x[2] <= n}}

RECURSIVE HasIfWithoutElse(_)
\* Whether some `if` of the statements, nested ones included, is written
\* without the `else` keyword
HasIfWithoutElse(ss) ==
    \E i \in 1..Len(ss) :
        \/ ss[i].kind = "If" /\ ~ss[i].has_else
        \/ ss[i].kind = "If" /\ HasIfWithoutElse(ss[i].then_stmts \o ss[i].else_stmts)
        \/ ss[i].kind = "While" /\ HasIfWithoutElse(ss[i].stmts)

\* A token before its position is known
Proto(t) == [typ |-> t, lexeme |-> <<>>, has_lexeme |-> FALSE]

ProtoLex(t, lexeme) == [typ |-> t, lexeme |-> lexeme, has_lexeme |-> TRUE]

BinopToken(op) ==
    CASE op = "Add" -> "Plus" [] op = "Sub" -> "Minus"
      [] op = "Mul" -> "Star" [] op = "Div" -> "Slash"

TypeToken(ty) == IF ty = "Int" THEN "TypeInt" ELSE "TypeFloat"

RECURSIVE ExprTokens(_)
\* expr, term and factor of the grammar: an operand of a binary operator
\* that is itself an operation is written in parentheses.
ExprTokens(e) ==
    LET Operand(x) == IF x.kind \in {"Negate", "Binop"}
                      THEN <<Proto("LParen")>> \o ExprTokens(x) \o <<Proto("RParen")>>
                      ELSE ExprTokens(x)
    IN  CASE e.kind = "Int" -> <<ProtoLex("Int", e.lit.lexeme)>>
          [] e.kind = "Float" -> <<ProtoLex("Float", e.lit.lexeme)>>
          [] e.kind = "Id" -> <<ProtoLex("Id", e.id)>>
          [] e.kind = "Negate" -> <<Proto("Minus")>> \o ExprTokens(e.expr)
          [] e.kind = "Binop" ->
                Operand(e.expr1) \o <<Proto(BinopToken(e.op))>> \o Operand(e.expr2)

RECURSIVE StmtTokens(_), StmtListTokens(_)
StmtTokens(st) ==
    CASE st.kind = "Read" ->
            <<Proto("Read"), ProtoLex("Id", st.id), Proto("Semicolon")>>
      [] st.kind = "Print" ->
            <<Proto("Print")>> \o ExprTokens(st.expr) \o <<Proto("Semicolon")>>
      [] st.kind = "Assign" ->
            <<ProtoLex("Id", st.id), Proto("Equal")>> \o ExprTokens(st.expr)
                \o <<Proto("Semicolon")>>
      [] st.kind = "If" ->
            <<Proto("If")>> \o ExprTokens(st.expr) \o <<Proto("Then")>>
                \o StmtListTokens(st.then_stmts)
                \o (IF st.has_else THEN <<Proto("Else")>> ELSE <<>>)
                \o StmtListTokens(st.else_stmts) \o <<Proto("End")>>
      [] st.kind = "While" ->
            <<Proto("While")>> \o ExprTokens(st.expr) \o <<Proto("Do")>>
                \o StmtListTokens(st.stmts) \o <<Proto("Done")>>

StmtListTokens(ss) ==
    IF ss = <<>> THEN <<>> ELSE StmtTokens(Head(ss)) \o StmtListTokens(Tail(ss))

DeclTokens(d) ==
    <<Proto("Var"), ProtoLex("Id", d.id), Proto("Colon"), Proto(TypeToken(d.ty)),
      Proto("Semicolon")>>

RECURSIVE DeclListTokens(_)
DeclListTokens(ds) ==
    IF ds = <<>> THEN <<>> ELSE DeclTokens(Head(ds)) \o DeclListTokens(Tail(ds))

\* `function f ( ) : int`, the head of a function declaration
FunHead ==
    <<Proto("Function"), ProtoLex("Id", <<"f">>), Proto("LParen"), Proto("RParen"),
      Proto("Colon"), Proto("TypeInt")>>

\* The tokens of a source: the program's text, or that text as the body of
\* one function declaration (in_fun), then Eof.
TokensOf(src) ==
    LET body == DeclListTokens(src.prog.decls) \o StmtListTokens(src.prog.stmts)
        protos == IF src.in_fun
                  THEN FunHead \o body \o <<Proto("End"), Proto("Eof")>>
                  ELSE body \o <<Proto("Eof")>>
    IN  [i \in 1..Len(protos) |->
            [typ |-> protos[i].typ, lexeme |-> protos[i].lexeme,
             has_lexeme |-> protos[i].has_lexeme, pos |-> Pos(1, i)]]

RECURSIVE ExprOf(_, _)
\* The Expr node of the expression whose first token has index i
ExprOf(e, i) ==
    LET At(x, j) == IF x.kind \in {"Negate", "Binop"} THEN ExprOf(x, j + 1)
                    ELSE ExprOf(x, j)
        Width(x) == IF x.kind \in {"Negate", "Binop"} THEN Len(ExprTokens(x)) + 2
                    ELSE 1
    IN  CASE e.kind = "Int" -> ExprInt(Pos(1, i), e.lit.value)
          [] e.kind = "Float" -> ExprFloat(Pos(1, i), e.lit.value)
          [] e.kind = "Id" -> ExprId(Pos(1, i), e.id)
          [] e.kind = "Negate" -> ExprNegate(Pos(1, i), ExprOf(e.expr, i + 1))
          [] e.kind = "Binop" ->
                ExprBinop(Pos(1, i), e.op, At(e.expr1, i),
                          At(e.expr2, i + Width(e.expr1) + 1))

RECURSIVE StmtOf(_, _), StmtListOf(_, _)
\* The Stmt node of the statement whose first token has index i
StmtOf(st, i) ==
    CASE st.kind = "Read" -> StmtRead(Pos(1, i), st.id)
      [] st.kind = "Print" -> StmtPrint(Pos(1, i), ExprOf(st.expr, i + 1))
      [] st.kind = "Assign" -> StmtAssign(Pos(1, i), st.id, ExprOf(st.expr, i + 2))
      [] st.kind = "If" ->
            LET t == i + 1 + Len(ExprTokens(st.expr)) + 1
                e == t + Len(StmtListTokens(st.then_stmts))
                       + (IF st.has_else THEN 1 ELSE 0)
            IN  StmtIf(Pos(1, i), ExprOf(st.expr, i + 1),
                       StmtListOf(st.then_stmts, t), StmtListOf(st.else_stmts, e))
      [] st.kind = "While" ->
            StmtWhile(Pos(1, i), ExprOf(st.expr, i + 1),
                      StmtListOf(st.stmts, i + 1 + Len(ExprTokens(st.expr)) + 1))

StmtListOf(ss, i) ==
    IF ss = <<>> THEN <<>>
    ELSE <<StmtOf(Head(ss), i)>> \o StmtListOf(Tail(ss), i + Len(StmtTokens(Head(ss))))

\* The Decl nodes of the declarations whose first token has index i
DeclListOf(ds, i) ==
    [k \in 1..Len(ds) |-> VarDecl(Pos(1, i + 5 * (k - 1)), ds[k].id, ds[k].ty)]

\* The Program (ast.rs) of the program whose first token has index i
ProgramOf(prog, i) ==
    [decls |-> DeclListOf(prog.decls, i),
     stmts |-> StmtListOf(prog.stmts, i + 5 * Len(prog.decls))]

---------------------------------------------------------------------------
(* The components' states before they are constructed.                     *)

NotRun == [kind |-> "NotRun"]

NoStmt == [kind |-> "NoStmt"]

NoSource == [kind |-> "NoSource"]

ParseIdle ==
    /\ source = NoSource
    /\ parser = [tokens |-> <<>>, index |-> 0]
    /\ p_result = NotRun

TcIdle ==
    /\ program = [decls |-> <<>>, stmts |-> <<>>]
    /\ tc = TypeCheckerNew
    /\ tc_pc = "idle"
    /\ tc_decl_i = 0
    /\ tc_todo = <<>>
    /\ tc_cur = NoStmt
    /\ tc_error = NoError

---------------------------------------------------------------------------
(* SpecScan: get_tokens on every source text of at most MaxSrcLen          *)
(* characters.                                                             *)

InitScan ==
    /\ \E data \in Sources(MaxSrcLen) : scanner = ScannerNew(data)
    /\ sc_tokens = <<>>
    /\ sc_status = "scanning"
    /\ sc_error = NoError
    /\ ParseIdle
    /\ TcIdle

NextScan == GetTokensPush \/ GetTokensErr \/ GetTokensLoop

SpecScan == InitScan /\ [][NextScan]_vars

---------------------------------------------------------------------------
(* SpecParse: Parser::new on the tokens of every source of at most MaxSize *)
(* nodes, then Parser::parse_program.                                      *)

InitParse ==
    /\ \E prog \in ProgramShapesUpTo(MaxSize), in_fun \in BOOLEAN :
          /\ source = [prog |-> prog, in_fun |-> in_fun]
          /\ parser = ParserNew(TokensOf([prog |-> prog, in_fun |-> in_fun]))
    /\ p_result = NotRun
    /\ ScanIdle
    /\ TcIdle

\* The call parser.parse_program() of CompileManager::parse
ParseProgram ==
    /\ p_result = NotRun
    /\ LET r == parse_program(parser)
       IN  /\ parser' = r.p
           /\ p_result' = [st |-> r.st, val |-> r.val, err |-> r.err]
    /\ UNCHANGED <<source, scan_vars, tc_vars>>

NextParse == ParseProgram

SpecParse == InitParse /\ [][NextParse]_vars

---------------------------------------------------------------------------
(* Spec: TypeChecker::new, then tc_program on every Program of at most     *)
(* MaxSize nodes.  tc_program's walk is taken one declaration and one      *)
(* statement at a time: tc_todo holds the statements the nested tc_stmts   *)
(* loops have still to visit, the innermost loop's first.                  *)

\* The Programs handed to tc_program: each program, written with every
\* `else`, as the parser positions its nodes.
TcPrograms(n) ==
    {ProgramOf(prog, 1) :
        prog \in {q \in ProgramShapesUpTo(n) : ~HasIfWithoutElse(q.stmts)}}

Init ==
    /\ program \in TcPrograms(MaxSize)
    /\ tc = TypeCheckerNew
    /\ tc_pc = "decls"
    /\ tc_decl_i = 0
    /\ tc_todo = <<>>
    /\ tc_cur = NoStmt
    /\ tc_error = NoError
    /\ ScanIdle
    /\ ParseIdle

\* One iteration of tc_decls' loop: try!(self.tc_decl(&decl))
TcDecl ==
    /\ tc_pc = "decls"
    /\ tc_decl_i < Len(program.decls)
    /\ LET r == tc_decl(tc, program.decls[tc_decl_i + 1])
       IN  /\ tc' = r.t
           /\ tc_error' = r.err
           /\ tc_pc' = IF r.ok THEN "decls" ELSE "error"
           /\ tc_decl_i' = IF r.ok THEN tc_decl_i + 1 ELSE tc_decl_i
    /\ UNCHANGED <<program, tc_todo, tc_cur, scan_vars, parse_vars>>

\* tc_decls returns Ok(()) and tc_program calls self.tc_stmts(&p.stmts)
TcDeclsDone ==
    /\ tc_pc = "decls"
    /\ tc_decl_i = Len(program.decls)
    /\ tc_pc' = "stmts"
    /\ tc_todo' = program.stmts
    /\ UNCHANGED <<program, tc, tc_decl_i, tc_cur, tc_error, scan_vars, parse_vars>>

\* One iteration of a tc_stmts loop: try!(self.tc_stmt(&stmt))
TcStmt ==
    /\ tc_pc = "stmts"
    /\ tc_todo # <<>>
    /\ LET stmt == Head(tc_todo)
           r == tc_stmt(tc, stmt)
       IN  /\ tc_cur' = stmt
           /\ tc' = r.t
           /\ tc_error' = r.err
           /\ tc_pc' = IF r.ok THEN "stmts" ELSE "error"
           /\ tc_todo' = IF r.ok THEN r.next \o Tail(tc_todo) ELSE tc_todo
    /\ UNCHANGED <<program, tc_decl_i, scan_vars, parse_vars>>

\* The outermost tc_stmts returns Ok(()), and so does tc_program
TcStmtsDone ==
    /\ tc_pc = "stmts"
    /\ tc_todo = <<>>
    /\ tc_pc' = "ok"
    /\ UNCHANGED <<program, tc, tc_decl_i, tc_todo, tc_cur, tc_error,
                   scan_vars, parse_vars>>

Next == TcDecl \/ TcDeclsDone \/ TcStmt \/ TcStmtsDone

Spec == Init /\ [][Next]_vars

---------------------------------------------------------------------------
(* C3                                                                      *)

\* The token kind each single-character token stands for.
SingleCharKind ==
    [c \in {"+", "-", "*", "/", "=", "(", ")", ":", ";", ","} |->
        CASE c = "+" -> "Plus"   [] c = "-" -> "Minus"  [] c = "*" -> "Star"
          [] c = "/" -> "Slash"  [] c = "=" -> "Equal"  [] c = "(" -> "LParen"
          [] c = ")" -> "RParen" [] c = ":" -> "Colon"  [] c = ";" -> "Semicolon"
          [] c = "," -> "Comma"]

\* The text is made only of single-character tokens, each followed by
\* whitespace or by the end of the text (whitespace-separated).
SingleCharsOnly(data) ==
    /\ \A i \in 1..Len(data) : data[i] \in DOMAIN SingleCharKind \/ is_whitespace(data[i])
    /\ \A i \in 1..(Len(data) - 1) :
          data[i] \in DOMAIN SingleCharKind => is_whitespace(data[i + 1])

RECURSIVE SingleCharKinds(_)
\* The kinds of the single-character tokens of the text, in order
SingleCharKinds(data) ==
    IF data = <<>> THEN <<>>
    ELSE IF Head(data) \in DOMAIN SingleCharKind
         THEN <<SingleCharKind[Head(data)]>> \o SingleCharKinds(Tail(data))
         ELSE SingleCharKinds(Tail(data))

\* C3: for a text made only of the ten single-character tokens separated by
\* whitespace, get_tokens never ends in an error, and once it has ended the
\* tokens are one per character, of the character's kind and in order,
\* followed by Eof.
C3_SingleCharTokens ==
    (SingleCharsOnly(scanner.data) /\ sc_status # "scanning") =>
        /\ sc_status = "done"
        /\ [i \in 1..Len(sc_tokens) |-> sc_tokens[i].typ]
              = SingleCharKinds(scanner.data) \o <<"Eof">>


---------------------------------------------------------------------------
(* C1                                                                      *)

\* C1: for the tokens decl* stmt* Eof of a program, parse_program returns Ok
\* with a Program whose decls are the program's declarations and whose stmts
\* are the program's statements, each in source order.
C1_ParseProgram ==
    (source # NoSource /\ ~source.in_fun /\ p_result # NotRun) =>
        /\ p_result.st = "ok"
        /\ p_result.val.decls = ProgramOf(source.prog, 1).decls
        /\ "stmts" \in DOMAIN p_result.val
        /\ p_result.val.stmts = ProgramOf(source.prog, 1).stmts

---------------------------------------------------------------------------
(* C2                                                                      *)

\* C2: where the parser parses statements (the body of a function
\* declaration), an `if` written without `else` parses: the call returns Ok,
\* the statements are the source's and the If node's else branch is empty.
C2_IfWithoutElse ==
    (source # NoSource /\ source.in_fun /\ p_result # NotRun
        /\ HasIfWithoutElse(source.prog.stmts)) =>
        /\ p_result.st = "ok"
        /\ p_result.val.decls[1].stmts
              = ProgramOf(source.prog, Len(FunHead) + 1).stmts

---------------------------------------------------------------------------
(* Reference definitions for the type checker's properties: the nodes of   *)
(* a Program in the order of the walk, and the typing of an expression.    *)
(* They are written from the Program alone and call no tc_* operator.      *)

RECURSIVE SubExprs(_)
\* The nodes of an expression, each after its operands (left, then right)
SubExprs(e) ==
    CASE e.kind \in {"Int", "Float", "Id"} -> <<e>>
      [] e.kind = "Negate" -> SubExprs(e.expr) \o <<e>>
      [] e.kind = "Binop" -> SubExprs(e.expr1) \o SubExprs(e.expr2) \o <<e>>

RECURSIVE WalkOf(_)
\* The nodes of the statements in walk order: a statement comes after the
\* nodes of its expression and before the statements of its branches.
WalkOf(ss) ==
    IF ss = <<>> THEN <<>>
    ELSE LET st == Head(ss)
             own == CASE st.kind = "Read" -> <<st>>
                      [] st.kind \in {"Print", "Assign"} -> SubExprs(st.expr) \o <<st>>
                      [] st.kind = "If" ->
                            SubExprs(st.expr) \o <<st>>
                                \o WalkOf(st.then_stmts) \o WalkOf(st.else_stmts)
                      [] st.kind = "While" ->
                            SubExprs(st.expr) \o <<st>> \o WalkOf(st.stmts)
         IN  own \o WalkOf(Tail(ss))

ExprKinds == {"Int", "Float", "Id", "Negate", "Binop"}

\* The expression nodes among the first n nodes of a walk
ExprNodesBefore(walk, n) ==
    {walk[i] : i \in {j \in 1..(n - 1) : walk[j].kind \in ExprKinds}}

\* The expression nodes of the statements, nested ones included
ExprNodes(ss) == ExprNodesBefore(WalkOf(ss), Len(WalkOf(ss)) + 1)

\* The number of expression nodes of the statements
ExprNodeCount(ss) ==
    Cardinality({j \in 1..Len(WalkOf(ss)) : WalkOf(ss)[j].kind \in ExprKinds})

RECURSIVE RefType(_, _)
\* The reference typing of an expression under a symbol table; "Unbound"
\* when it refers to a name the table does not hold.
RefType(symtable, e) ==
    CASE e.kind = "Int" -> "Int"
      [] e.kind = "Float" -> "Float"
      [] e.kind = "Id" ->
            IF e.id \in DOMAIN symtable THEN symtable[e.id] ELSE "Unbound"
      [] e.kind = "Negate" -> RefType(symtable, e.expr)
      [] e.kind = "Binop" ->
            LET l == RefType(symtable, e.expr1)
                r == RefType(symtable, e.expr2)
            IN  IF "Unbound" \in {l, r} THEN "Unbound"
                ELSE IF "Float" \in {l, r} THEN "Float"
                ELSE "Int"

\* The statement tc_stmt was last called on has an expression
CurHasExpr == tc_cur.kind \in {"Print", "Assign", "If", "While"}

\* tc_expr returned Ok for the expression of that statement
CurExprTyped == CurHasExpr /\ tc_cur.expr \in DOMAIN tc.expr_table

---------------------------------------------------------------------------
(* C4                                                                      *)

\* C4: once tc_program has returned Ok, every expression node of the
\* program's statements (branches and loop bodies included) is a key of
\* expr_table, no two nodes at different places of the walk are the same
\* key, and the table has as many entries as there are expression nodes.
C4_ExprTableComplete ==
    tc_pc = "ok" =>
        /\ ExprNodes(program.stmts) \subseteq DOMAIN tc.expr_table
        /\ Cardinality(ExprNodes(program.stmts)) = ExprNodeCount(program.stmts)
        /\ Cardinality(DOMAIN tc.expr_table) = ExprNodeCount(program.stmts)

\* tc_program returned Ok and two entries are integer literals of the same
\* value at different positions.
C4_Witness ==
    /\ tc_pc = "ok"
    /\ \E a, b \in DOMAIN tc.expr_table :
          /\ a.kind = "Int" /\ b.kind = "Int"
          /\ a.value = b.value /\ a.pos # b.pos

---------------------------------------------------------------------------
(* C5                                                                      *)

\* C5: for an assignment whose variable is declared with type D and whose
\* expression has the type E, tc_stmt_assign returns Ok exactly when (D, E)
\* is (Int, Int), (Float, Int) or (Float, Float), and for (Int, Float) it
\* returns UnexpectedType with the assignment's position, expected Int and
\* actual Float.
C5_AssignCompatibility ==
    (tc_cur.kind = "Assign" /\ CurExprTyped /\ tc_cur.id \in DOMAIN tc.symtable) =>
        LET D == tc.symtable[tc_cur.id]
            E == tc.expr_table[tc_cur.expr]
        IN  /\ (tc_error = NoError) <=>
                  (<<D, E>> \in {<<"Int", "Int">>, <<"Float", "Int">>,
                                 <<"Float", "Float">>})
            /\ (D = "Int" /\ E = "Float") =>
                  tc_error = UnexpectedType(tc_cur.pos, "Int", "Float")

\* A Float expression was assigned to a declared Int variable and refused.
C5_Witness ==
    /\ tc_cur.kind = "Assign" /\ CurExprTyped
    /\ tc_cur.id \in DOMAIN tc.symtable
    /\ tc.symtable[tc_cur.id] = "Int"
    /\ tc.expr_table[tc_cur.expr] = "Float"
    /\ tc_pc = "error"

---------------------------------------------------------------------------
(* C6                                                                      *)

\* C6: the type recorded for an expression is its reference type (literal:
\* its own; identifier: the symbol table's; Negate: its operand's; Binop:
\* Int when both operands are Int, else Float, whatever the operator), and
\* tc_expr returns Ok and records a type for every expression over declared
\* variables.
C6_ReferenceTyping ==
    /\ \A e \in DOMAIN tc.expr_table : tc.expr_table[e] = RefType(tc.symtable, e)
    /\ (CurHasExpr /\ RefType(tc.symtable, tc_cur.expr) # "Unbound") =>
          /\ CurExprTyped
          /\ \A e \in ExprNodesBefore(SubExprs(tc_cur.expr),
                                      Len(SubExprs(tc_cur.expr)) + 1) :
                e \in DOMAIN tc.expr_table

\* A division of an Int literal by a Float literal was recorded as Float.
C6_Witness ==
    \E e \in DOMAIN tc.expr_table :
        /\ e.kind = "Binop" /\ e.op = "Div"
        /\ e.expr1.kind = "Int" /\ tc.expr_table[e.expr1] = "Int"
        /\ e.expr2.kind = "Float" /\ tc.expr_table[e.expr2] = "Float"
        /\ tc.expr_table[e] = "Float"

---------------------------------------------------------------------------
(* C7                                                                      *)

\* The type the first declaration of the name among the first n
\* declarations gives it
FirstDeclType(decls, n, id) ==
    decls[CHOOSE i \in 1..n :
            decls[i].id = id /\ \A j \in 1..(i - 1) : decls[j].id # id].ty

\* The symbol table holds the first tc_decl_i declarations, and no
\* statement is checked while declarations remain.
C7_DeclsFirst ==
    /\ tc_decl_i \in 0..Len(program.decls)
    /\ DOMAIN tc.symtable = {program.decls[i].id : i \in 1..tc_decl_i}
    /\ \A id \in DOMAIN tc.symtable :
          tc.symtable[id] = FirstDeclType(program.decls, tc_decl_i, id)
    /\ tc_pc \in {"stmts", "ok"} => tc_decl_i = Len(program.decls)
    /\ (tc_cur # NoStmt \/ DOMAIN tc.expr_table # {}) =>
          tc_decl_i = Len(program.decls)
    /\ tc_error.kind = "DuplicateVariable" =>
          /\ tc_pc = "error" /\ tc_decl_i < Len(program.decls)
          /\ tc_error = DuplicateVariable(program.decls[tc_decl_i + 1].pos,
                                          program.decls[tc_decl_i + 1].id)
          /\ program.decls[tc_decl_i + 1].id \in DOMAIN tc.symtable

\* A step on a declaration whose name is bound fails with DuplicateVariable
\* and one on an unbound name binds it; no step changes or removes a
\* binding.
C7_DeclStep ==
    /\ (tc_pc = "decls" /\ tc_decl_i < Len(program.decls)) =>
          LET decl == program.decls[tc_decl_i + 1]
          IN  IF decl.id \in DOMAIN tc.symtable
              THEN /\ tc_pc' = "error"
                   /\ tc_error' = DuplicateVariable(decl.pos, decl.id)
              ELSE /\ tc_pc' = "decls"
                   /\ tc_decl_i' = tc_decl_i + 1
                   /\ decl.id \in DOMAIN tc'.symtable
                   /\ tc'.symtable[decl.id] = decl.ty
    /\ \A id \in DOMAIN tc.symtable :
          id \in DOMAIN tc'.symtable /\ tc'.symtable[id] = tc.symtable[id]

\* C7: tc_program processes the declarations in order before it checks any
\* statement; a declaration of a bound name fails with DuplicateVariable at
\* the position and with the name of that later declaration; and the symbol
\* table is append-only, so the first declaration's type stays.
C7_Declarations == []C7_DeclsFirst /\ [][C7_DeclStep]_vars

\* A name declared Int and then Float: DuplicateVariable, and the name is
\* still Int.
C7_Witness ==
    /\ tc_error.kind = "DuplicateVariable"
    /\ program.decls[tc_decl_i + 1].ty = "Float"
    /\ tc.symtable[tc_error.id] = "Int"

---------------------------------------------------------------------------
(* C8                                                                      *)

\* The first identifier of the expression, in the order tc_expr reaches
\* them, whose name the symbol table does not hold
FirstUnbound(symtable, e) ==
    LET nodes == SubExprs(e)
        unbound == {i \in 1..Len(nodes) :
                        nodes[i].kind = "Id" /\ nodes[i].id \notin DOMAIN symtable}
    IN  nodes[CHOOSE i \in unbound : \A j \in unbound : i <= j]

\* A `read` of an unbound name fails with UndeclaredVariable, the name and
\* the statement's position.
C8_Read ==
    (tc_cur.kind = "Read" /\ tc_cur.id \notin DOMAIN tc.symtable) =>
        tc_error = UndeclaredVariable(tc_cur.pos, tc_cur.id)

\* An expression with an unbound identifier fails with UndeclaredVariable,
\* the name and the position of the first such identifier.
C8_IdExpr ==
    (CurHasExpr /\ RefType(tc.symtable, tc_cur.expr) = "Unbound") =>
        tc_error = UndeclaredVariable(FirstUnbound(tc.symtable, tc_cur.expr).pos,
                                      FirstUnbound(tc.symtable, tc_cur.expr).id)

\* C8 as stated: a `read id`, an assignment `id = expr` or an identifier
\* expression whose name is unbound fails with UndeclaredVariable, that name
\* and the position of the statement or of the identifier expression.
C8_UndeclaredAsStated ==
    /\ C8_Read
    /\ C8_IdExpr
    /\ (tc_cur.kind = "Assign" /\ tc_cur.id \notin DOMAIN tc.symtable) =>
          tc_error = UndeclaredVariable(tc_cur.pos, tc_cur.id)

\* C8, amended: as stated for `read` and for identifier expressions; an
\* assignment to an unbound name fails with UndeclaredVariable, that name
\* and the assignment's position when its expression type-checks, the
\* expression being checked before the assigned name is looked up.
C8_Undeclared ==
    /\ C8_Read
    /\ C8_IdExpr
    /\ (tc_cur.kind = "Assign" /\ tc_cur.id \notin DOMAIN tc.symtable
            /\ CurExprTyped) =>
          tc_error = UndeclaredVariable(tc_cur.pos, tc_cur.id)

\* An assignment of a well-typed expression to an unbound name was refused.
C8_Witness ==
    /\ tc_cur.kind = "Assign" /\ CurExprTyped
    /\ tc_cur.id \notin DOMAIN tc.symtable
    /\ tc_error.kind = "UndeclaredVariable"

---------------------------------------------------------------------------
(* C9                                                                      *)

\* The statements of the branches of an If, or of the body of a While
BranchesOf(st) ==
    IF st.kind = "If" THEN st.then_stmts \o st.else_stmts ELSE st.stmts

\* An `if` or `while` whose condition has another type than Int fails with
\* UnexpectedType at the statement's position, and no expression of its
\* branches or body has been given a type.
C9_NonIntCondition ==
    (tc_cur.kind \in {"If", "While"} /\ CurExprTyped
        /\ tc.expr_table[tc_cur.expr] # "Int") =>
        /\ tc_pc = "error"
        /\ tc_error = UnexpectedType(tc_cur.pos, "Int", tc.expr_table[tc_cur.expr])
        /\ ExprNodes(BranchesOf(tc_cur)) \cap DOMAIN tc.expr_table = {}

\* A step on an `if` or `while` whose condition is Int goes on to the
\* statements of the then-branch, then those of the else-branch (or to the
\* loop body), before the statements that follow it.
C9_IntConditionStep ==
    (tc_pc = "stmts" /\ tc_todo # <<>> /\ Head(tc_todo).kind \in {"If", "While"}
        /\ RefType(tc.symtable, Head(tc_todo).expr) = "Int") =>
        /\ tc_pc' = "stmts"
        /\ tc_error' = NoError
        /\ tc_todo' = BranchesOf(Head(tc_todo)) \o Tail(tc_todo)

\* C9: an `if` or `while` whose condition is not Int fails with
\* UnexpectedType (the statement's position, expected Int, actual the
\* condition's type) and none of its branches' or body's statements are
\* checked; when the condition is Int, the then-branch, then the
\* else-branch (or the loop body) are checked.
C9_Conditions == []C9_NonIntCondition /\ [][C9_IntConditionStep]_vars

\* An `if` with a Float condition and a statement in its then-branch was
\* refused.
C9_Witness ==
    /\ tc_cur.kind = "If" /\ CurExprTyped
    /\ tc.expr_table[tc_cur.expr] = "Float"
    /\ tc_cur.then_stmts # <<>>
    /\ ExprNodes(tc_cur.then_stmts) # {}
    /\ tc_pc = "error"

---------------------------------------------------------------------------
(* C10                                                                     *)

\* The place in the walk of the node the error names: an identifier
\* expression, `read` or assignment for UndeclaredVariable, an assignment,
\* `if` or `while` for UnexpectedType.
FailingIndex(walk, err) ==
    CHOOSE i \in 1..Len(walk) :
        /\ walk[i].pos = err.pos
        /\ walk[i].kind \in (IF err.kind = "UndeclaredVariable"
                             THEN {"Id", "Read", "Assign"}
                             ELSE {"Assign", "If", "While"})

\* C10: when tc_program has failed, the symbol table holds the declarations
\* before the failing one (all of them when a statement failed) and
\* expr_table holds exactly the expression nodes the walk completed before
\* the failing node: none for the failing expression, its ancestors, or
\* anything later in the walk.
C10_FailFast ==
    tc_pc = "error" =>
        IF tc_error.kind = "DuplicateVariable"
        THEN /\ DOMAIN tc.expr_table = {}
             /\ \E k \in 1..Len(program.decls) :
                  /\ program.decls[k].pos = tc_error.pos
                  /\ DOMAIN tc.symtable = {program.decls[i].id : i \in 1..(k - 1)}
                  /\ \A i \in 1..(k - 1) :
                        tc.symtable[program.decls[i].id] = program.decls[i].ty
        ELSE /\ DOMAIN tc.symtable =
                    {program.decls[i].id : i \in 1..Len(program.decls)}
             /\ \A i \in 1..Len(program.decls) :
                    tc.symtable[program.decls[i].id] = program.decls[i].ty
             /\ DOMAIN tc.expr_table =
                    ExprNodesBefore(WalkOf(program.stmts),
                                    FailingIndex(WalkOf(program.stmts), tc_error))

\* The right operand of a printed Binop failed after its left operand was
\* recorded.
C10_Witness ==
    /\ tc_pc = "error"
    /\ tc_error.kind = "UndeclaredVariable"
    /\ tc_cur.kind = "Print" /\ tc_cur.expr.kind = "Binop"
    /\ tc_cur.expr.expr1 \in DOMAIN tc.expr_table
    /\ tc_cur.expr \notin DOMAIN tc.expr_table

---------------------------------------------------------------------------
(* C11                                                                     *)

RECURSIVE BlankFrom(_, _)
\* From the character at index i (1-based) on, the text holds only
\* whitespace and comments that a newline ends.
BlankFrom(data, i) ==
    IF i > Len(data) THEN TRUE
    ELSE IF is_whitespace(data[i]) THEN BlankFrom(data, i + 1)
    ELSE IF data[i] = "#"
         THEN /\ \E j \in i..Len(data) : data[j] = "\n"
              /\ BlankFrom(data,
                    1 + CHOOSE j \in i..Len(data) :
                            data[j] = "\n" /\ \A k \in i..(j - 1) : data[k] # "\n")
    ELSE FALSE

\* C11: once only whitespace and comments remain, next_token returns Eof and
\* no error, a further call returns the same Eof token and leaves the
\* scanner as it is, and the tokens get_tokens returns hold Eof once, as
\* the last element; multi-byte characters in the comments change nothing.
C11_EofIdempotent ==
    /\ (sc_status = "scanning" /\ BlankFrom(scanner.data, scanner.index + 1)) =>
          LET r == next_token(scanner)
          IN  /\ r.ends /\ r.ok /\ r.tok.typ = "Eof"
              /\ next_token(r.s).ends /\ next_token(r.s).ok
              /\ next_token(r.s).tok = r.tok
              /\ next_token(r.s).s = r.s
    /\ sc_status = "done" =>
          /\ sc_tokens # <<>>
          /\ \A i \in 1..Len(sc_tokens) :
                (sc_tokens[i].typ = "Eof") <=> (i = Len(sc_tokens))

---------------------------------------------------------------------------
(* Reference definitions for the scanner's properties, written from the    *)
(* text alone: where the next token starts and the (line, column) of a     *)
(* character.  Indices into the text are 1-based.                          *)

RECURSIVE FirstNonBlank(_, _)
\* The index of the first character at or after index i that is neither
\* whitespace nor part of a comment; 0 when there is none, or when a
\* comment is not ended by a newline.
FirstNonBlank(data, i) ==
    IF i > Len(data) THEN 0
    ELSE IF is_whitespace(data[i]) THEN FirstNonBlank(data, i + 1)
    ELSE IF data[i] = "#"
         THEN IF \E j \in i..Len(data) : data[j] = "\n"
              THEN FirstNonBlank(data,
                      CHOOSE j \in i..Len(data) :
                          data[j] = "\n" /\ \A k \in i..(j - 1) : data[k] # "\n")
              ELSE 0
    ELSE i

\* The position of the character at index i: lines are counted from 1 by
\* the newlines before it, columns from 1 after the last of them.
RefPos(data, i) ==
    LET nl == {j \in 1..(i - 1) : data[j] = "\n"}
        last == IF nl = {} THEN 0 ELSE CHOOSE j \in nl : \A k \in nl : k <= j
    IN  Pos(1 + Cardinality(nl), i - last)

\* The characters a token can start with: the single-character tokens, the
\* digits, the letters and the underscore.
TokenStarts == DOMAIN SingleCharKind \cup Digits \cup LowerCase \cup UpperCase \cup {"_"}

\* The index of the character the next call of next_token fails on, 0 if
\* it does not fail on a character.
IllegalNext ==
    LET k == FirstNonBlank(scanner.data, scanner.index + 1)
    IN  IF sc_status = "scanning" /\ k # 0 /\ scanner.data[k] \notin TokenStarts
        THEN k ELSE 0

---------------------------------------------------------------------------
(* C12                                                                     *)

\* The call fails with IllegalCharacter, the character and its position,
\* and a repeated call returns the same error.
C12_Error ==
    IllegalNext # 0 =>
        LET r == next_token(scanner)
        IN  /\ r.ends /\ ~r.ok
            /\ r.err = IllegalCharacter(RefPos(scanner.data, IllegalNext),
                                        scanner.data[IllegalNext])
            /\ next_token(r.s).ends /\ ~next_token(r.s).ok
            /\ next_token(r.s).err = r.err

\* C12 as stated: when the first character after the skipped whitespace and
\* comments starts no token, next_token fails with IllegalCharacter, that
\* character and its position, and the failing call leaves the scanner's
\* index and position unchanged.
C12_IllegalCharacterAsStated ==
    /\ C12_Error
    /\ IllegalNext # 0 =>
          /\ next_token(scanner).s.index = scanner.index
          /\ next_token(scanner).s.curr_pos = scanner.curr_pos

\* C12, amended: the failing call consumes the whitespace and comments
\* before the character and leaves the index and position on the character
\* itself, which it does not skip; a repeated call changes nothing.
C12_IllegalCharacter ==
    /\ C12_Error
    /\ IllegalNext # 0 =>
          LET r == next_token(scanner)
          IN  /\ r.s.index = IllegalNext - 1
              /\ r.s.curr_pos = RefPos(scanner.data, IllegalNext)
              /\ next_token(r.s).s = r.s
    /\ (sc_status = "error" /\ sc_error.char # NUL) =>
          /\ sc_error = IllegalCharacter(scanner.curr_pos,
                                         scanner.data[scanner.index + 1])
          /\ scanner.curr_pos = RefPos(scanner.data, scanner.index + 1)

\* get_tokens returned the error for `@` at line 1, column 3, after one
\* token and a blank.
C12_Witness ==
    /\ sc_status = "error"
    /\ sc_error = IllegalCharacter(Pos(1, 3), "@")
    /\ Len(sc_tokens) = 1
    /\ scanner.index = 2


---------------------------------------------------------------------------
(* SpecExpr: Parser::new on the tokens of an operator chain                *)
(*     ["-"] operand (op ["-"] operand)*  Eof                              *)
(* of at most MaxOperands operands, written without parentheses, then      *)
(* parse_expr.                                                             *)

MaxOperands == 3

\* The operands: every expression of one node
Operands == ExprShapesTo(1)[1]

ChainLinks == [op : Binops, neg : BOOLEAN, leaf : Operands]

\* The chains of at most n operands
Chains(n) ==
    {[first |-> f, rest |-> r] :
        f \in [neg : BOOLEAN, leaf : Operands], r \in SeqsUpTo(ChainLinks, n - 1)}

\* The operands of a chain in order, each with the operator written before
\* it ("None" before the first)
ChainItems(src) ==
    <<[op |-> "None", neg |-> src.first.neg, leaf |-> src.first.leaf]>> \o src.rest

ItemTokens(it) ==
    (IF it.op = "None" THEN <<>> ELSE <<Proto(BinopToken(it.op))>>)
        \o (IF it.neg THEN <<Proto("Minus")>> ELSE <<>>)
        \o ExprTokens(it.leaf)

RECURSIVE ChainProtos(_)
ChainProtos(items) ==
    IF items = <<>> THEN <<>>
    ELSE ItemTokens(Head(items)) \o ChainProtos(Tail(items))

\* The tokens the scanner hands over for the chain written on one line
ChainTokens(src) ==
    LET protos == ChainProtos(ChainItems(src)) \o <<Proto("Eof")>>
    IN  [i \in 1..Len(protos) |->
            [typ |-> protos[i].typ, lexeme |-> protos[i].lexeme,
             has_lexeme |-> protos[i].has_lexeme, pos |-> Pos(1, i)]]

IsChain(src) == "first" \in DOMAIN src

InitExpr ==
    /\ \E src \in Chains(MaxOperands) :
          /\ source = src
          /\ parser = ParserNew(ChainTokens(src))
    /\ p_result = NotRun
    /\ ScanIdle
    /\ TcIdle

\* A call self.parse_expr() with the cursor on the first token
ParseExpr ==
    /\ p_result = NotRun
    /\ LET r == parse_expr(parser)
       IN  /\ parser' = r.p
           /\ p_result' = [st |-> r.st, val |-> r.val, err |-> r.err]
    /\ UNCHANGED <<source, scan_vars, tc_vars>>

NextExpr == ParseExpr

SpecExpr == InitExpr /\ [][NextExpr]_vars

---------------------------------------------------------------------------
(* Reference definitions for the parser's expressions: the tree the        *)
(* grammar                                                                 *)
(*     expr := term (("+"|"-") term)*     term := factor (("*"|"/") factor)* *)
(*     factor := operand | "-" expr                                        *)
(* gives a chain, both levels left-associative.  They are written from the *)
(* chain alone and call no parse_* operator.                               *)

\* The index of the token of the k-th operand
LeafIndex(items, k) == Len(ChainProtos(SubSeq(items, 1, k)))

\* The index of the first token of the k-th factor; bare: its "-" is not
\* part of it
FactorIndex(items, k, bare) ==
    IF items[k].neg /\ ~bare THEN LeafIndex(items, k) - 1 ELSE LeafIndex(items, k)

\* The last operand of the expr that starts at operand i: a "-" takes
\* everything after it, so the first operand written with "-" is the last.
LastOfExpr(items, i, bare) ==
    LET negs == {k \in (IF bare THEN i + 1 ELSE i)..Len(items) : items[k].neg}
    IN  IF negs = {} THEN Len(items)
        ELSE CHOOSE k \in negs : \A m \in negs : k <= m

RECURSIVE RefExprFrom(_, _, _), RefAdd(_, _, _, _), RefMul(_, _, _, _),
          RefFactor(_, _, _)

\* expr from operand i to the end of the chain
RefExprFrom(items, i, bare) == RefAdd(items, i, LastOfExpr(items, i, bare), bare)

\* term (("+"|"-") term)* over the operands i..j: the last additive operator
\* is the root
RefAdd(items, i, j, bare) ==
    LET adds == {m \in (i + 1)..j : items[m].op \in {"Add", "Sub"}}
    IN  IF adds = {} THEN RefMul(items, i, j, bare)
        ELSE LET m == CHOOSE k \in adds : \A x \in adds : x <= k
             IN  ExprBinop(Pos(1, FactorIndex(items, i, bare)), items[m].op,
                           RefAdd(items, i, m - 1, bare),
                           RefMul(items, m, j, FALSE))

\* factor (("*"|"/") factor)* over the operands i..j
RefMul(items, i, j, bare) ==
    IF j = i THEN RefFactor(items, i, bare)
    ELSE ExprBinop(Pos(1, FactorIndex(items, i, bare)), items[j].op,
                   RefMul(items, i, j - 1, bare), RefFactor(items, j, FALSE))

RefFactor(items, k, bare) ==
    IF items[k].neg /\ ~bare
    THEN ExprNegate(Pos(1, LeafIndex(items, k) - 1), RefExprFrom(items, k, TRUE))
    ELSE ExprOf(items[k].leaf, LeafIndex(items, k))

\* The tree of the whole chain
RefChain(src) == RefExprFrom(ChainItems(src), 1, FALSE)

NoUnaryMinus(src) == \A k \in 1..Len(ChainItems(src)) : ~ChainItems(src)[k].neg

---------------------------------------------------------------------------
(* C13                                                                     *)

\* C13: for a chain of operands without unary minus, parse_expr returns Ok
\* with the cursor on Eof and the tree in which "*" and "/" bind tighter
\* than "+" and "-" and both levels associate to the left (a + b * c is
\* Add(a, Mul(b, c)), a - b - c is Sub(Sub(a, b), c)); in particular
\* parse_term returns the tree it built from its factors.
C13_Precedence ==
    (IsChain(source) /\ NoUnaryMinus(source) /\ p_result # NotRun) =>
        /\ p_result.st = "ok"
        /\ parser.index = Len(parser.tokens) - 1
        /\ p_result.val = RefChain(source)

---------------------------------------------------------------------------
(* C14                                                                     *)

\* C14: a chain that starts with "-" parses to a Negate node that has the
\* position of the "-" token and whose operand is the tree of everything
\* after the "-" (-a+b is Negate(Add(a, b)), not Add(Negate(a), b)).
C14_UnaryMinus ==
    (IsChain(source) /\ source.first.neg /\ p_result # NotRun) =>
        /\ p_result.st = "ok"
        /\ p_result.val.kind = "Negate"
        /\ p_result.val.pos = Pos(1, 1)
        /\ p_result.val.expr = RefExprFrom(ChainItems(source), 1, TRUE)


---------------------------------------------------------------------------
(* SpecScanWords: get_tokens on every text of at most MaxWordLen           *)
(* characters over the letters of `if` and `do`, a digit, the decimal      *)
(* point, the underscore, blanks and the comment start.                    *)

MaxWordLen == 4

WordChars == {"i", "f", "d", "o", "1", ".", "_", " ", "\n", "#"}

InitScanWords ==
    /\ \E data \in SeqsUpTo(WordChars, MaxWordLen) : scanner = ScannerNew(data)
    /\ sc_tokens = <<>>
    /\ sc_status = "scanning"
    /\ sc_error = NoError
    /\ ParseIdle
    /\ TcIdle

SpecScanWords == InitScanWords /\ [][NextScan]_vars

---------------------------------------------------------------------------
(* Reference definitions for multi-character tokens, written from the      *)
(* text alone.                                                             *)

\* The index of the last character of the longest run of characters of S
\* that starts at index i (i - 1 when the run is empty)
RunEnd(data, i, S) ==
    CHOOSE j \in (i - 1)..Len(data) :
        /\ \A k \in i..j : data[k] \in S
        /\ j = Len(data) \/ data[j + 1] \notin S

\* The kind of a run of letters, digits and underscores
RefWordKind(w) ==
    CASE w = <<"i", "f">> -> "If"
      [] w = <<"t", "h", "e", "n">> -> "Then"
      [] w = <<"e", "l", "s", "e">> -> "Else"
      [] w = <<"e", "n", "d">> -> "End"
      [] w = <<"w", "h", "i", "l", "e">> -> "While"
      [] w = <<"d", "o">> -> "Do"
      [] w = <<"d", "o", "n", "e">> -> "Done"
      [] w = <<"r", "e", "a", "d">> -> "Read"
      [] w = <<"p", "r", "i", "n", "t">> -> "Print"
      [] w = <<"v", "a", "r">> -> "Var"
      [] w = <<"i", "n", "t">> -> "TypeInt"
      [] w = <<"f", "l", "o", "a", "t">> -> "TypeFloat"
      [] OTHER -> "Id"

\* The kind and the last character of the token that starts at index i
\* with a digit, a letter or an underscore
RefWord(data, i) ==
    IF data[i] \in Digits
    THEN LET j == RunEnd(data, i, Digits)
         IN  IF j < Len(data) /\ data[j + 1] = "."
             THEN [typ |-> "Float", last |-> RunEnd(data, j + 2, Digits)]
             ELSE [typ |-> "Int", last |-> j]
    ELSE LET j == RunEnd(data, i, LowerCase \cup UpperCase \cup Digits \cup {"_"})
         IN  [typ |-> RefWordKind(SubSeq(data, i, j)), last |-> j]

LexemeKinds == {"Int", "Float", "Id"}

---------------------------------------------------------------------------
(* C15                                                                     *)

---------------------------------------------------------------------------
(* C16                                                                     *)

\* C16: the token a call of next_token returns, Eof included, has the
\* position of its first character (for Eof, of the end of the text): the
\* line is 1 plus the number of newlines before it and the column 1 plus
\* the number of characters after the last of them.  The cursor's position
\* is that of the next character to read, and every line and column is at
\* least 1.
C16_TokenPositions ==
    /\ sc_status = "scanning" =>
          LET data == scanner.data
              i == FirstNonBlank(data, scanner.index + 1)
              r == next_token(scanner)
          IN  (r.ends /\ r.ok) =>
                 /\ r.tok.pos = RefPos(data, IF i = 0 THEN Len(data) + 1 ELSE i)
                 /\ (r.tok.typ = "Eof") <=> (i = 0)
    /\ sc_status \in {"scanning", "done", "error"} =>
          /\ scanner.curr_pos = RefPos(scanner.data, scanner.index + 1)
          /\ scanner.curr_pos.line >= 1 /\ scanner.curr_pos.col >= 1
    /\ \A k \in 1..Len(sc_tokens) :
          /\ sc_tokens[k].pos.line >= 1 /\ sc_tokens[k].pos.col >= 1
          /\ k > 1 =>
                \/ sc_tokens[k - 1].pos.line < sc_tokens[k].pos.line
                \/ /\ sc_tokens[k - 1].pos.line = sc_tokens[k].pos.line
                   /\ sc_tokens[k - 1].pos.col < sc_tokens[k].pos.col

\* `a`, newline, `1` has been scanned: the second token is on line 2 and
\* Eof is after it.
C16_Witness ==
    /\ sc_status = "done"
    /\ scanner.data = <<"a", "\n", "1">>
    /\ [k \in 1..Len(sc_tokens) |-> sc_tokens[k].pos]
          = <<Pos(1, 1), Pos(2, 1), Pos(2, 2)>>


---------------------------------------------------------------------------
(* SpecParseBad: Parser::new on the tokens of every source of at most      *)
(* MaxBadSize nodes in which one token is replaced by a comma, then        *)
(* Parser::parse_program.                                                  *)

MaxBadSize == 2

\* The tokens of the source, the token of index src.bad being a Comma
BadTokens(src) ==
    LET t == TokensOf([prog |-> src.prog, in_fun |-> src.in_fun])
    IN  [i \in 1..Len(t) |->
            IF i = src.bad
            THEN [typ |-> "Comma", lexeme |-> <<>>, has_lexeme |-> FALSE,
                  pos |-> t[i].pos]
            ELSE t[i]]

InitParseBad ==
    /\ \E prog \in ProgramShapesUpTo(MaxBadSize), in_fun \in BOOLEAN :
          \E bad \in 1..Len(TokensOf([prog |-> prog, in_fun |-> in_fun])) :
             /\ source = [prog |-> prog, in_fun |-> in_fun, bad |-> bad]
             /\ parser = ParserNew(BadTokens(source))
    /\ p_result = NotRun
    /\ ScanIdle
    /\ TcIdle

SpecParseBad == InitParseBad /\ [][NextParse]_vars

---------------------------------------------------------------------------
(* C17                                                                     *)

\* The token kinds of token.rs
TokenKinds ==
    {"Int", "Float", "Id", "Plus", "Minus", "Star", "Slash", "Equal", "LParen",
     "RParen", "Colon", "Semicolon", "Comma", "If", "Then", "Else", "End",
     "While", "Do", "Done", "Read", "Print", "Var", "TypeInt", "TypeFloat",
     "TypeVoid", "Function", "Return", "Eof"}

\* A token of the kind in the place of the token of index i
WithKindAt(tokens, i, kind) ==
    [tokens EXCEPT ![i] =
        [typ |-> kind,
         lexeme |-> CASE kind = "Int" -> <<"1">>
                      [] kind = "Float" -> <<"1", ".", "5">>
                      [] kind = "Id" -> <<"x">>
                      [] OTHER -> <<>>,
         has_lexeme |-> kind \in {"Int", "Float", "Id"},
         pos |-> @.pos]]

\* The parser accepts the kind where it failed: with a token of that kind
\* there, the same call gets past it.
AcceptedAtFailure(kind) ==
    parse_program(ParserNew(WithKindAt(parser.tokens, parser.index + 1, kind))).p.index
        > parser.index

Range(seq) == {seq[i] : i \in DOMAIN seq}

\* C17: when parse_program fails with UnexpectedToken, the error carries the
\* token the cursor is left on, and its list of expected kinds is not empty
\* and holds every kind the parser accepts at that point.
C17_ExpectedKinds ==
    (p_result # NotRun /\ p_result.st = "err"
        /\ p_result.err.kind = "UnexpectedToken") =>
        /\ InBounds(parser)
        /\ p_result.err.token = curr_token(parser)
        /\ p_result.err.expected # <<>>
        /\ \A kind \in TokenKinds :
              AcceptedAtFailure(kind) => kind \in Range(p_result.err.expected)


---------------------------------------------------------------------------
(* SpecInt: Parser::new on one Int token and Eof, then parse_int.  The     *)
(* lexemes are the digit strings of at most MaxIntLen digits that agree    *)
(* with the digits of i64::MAX up to their last digit, and the same        *)
(* strings after a leading zero.                                           *)

MaxIntLen == 20

\* The first k digits of i64::MAX, continued with zeros
MaxPrefix(k) ==
    [i \in 1..k |-> IF i <= Len(I64MaxDigits) THEN I64MaxDigits[i] ELSE "0"]

IntLexemes(n) ==
    LET near == {Append(MaxPrefix(k), d) : k \in 0..(n - 1), d \in Digits}
    IN  near \cup {<<"0">> \o l : l \in {x \in near : Len(x) < n}}

IntTokens(lexeme) ==
    <<[typ |-> "Int", lexeme |-> lexeme, has_lexeme |-> TRUE, pos |-> Pos(1, 1)],
      [typ |-> "Eof", lexeme |-> <<>>, has_lexeme |-> FALSE, pos |-> Pos(1, 2)]>>

IsIntSource(src) == "lexeme" \in DOMAIN src

InitInt ==
    /\ \E lexeme \in IntLexemes(MaxIntLen) :
          /\ source = [lexeme |-> lexeme]
          /\ parser = ParserNew(IntTokens(lexeme))
    /\ p_result = NotRun
    /\ ScanIdle
    /\ TcIdle

\* A call self.parse_int() with the cursor on the Int token
ParseInt ==
    /\ p_result = NotRun
    /\ LET r == parse_int(parser)
       IN  /\ parser' = r.p
           /\ p_result' = [st |-> r.st, val |-> r.val, err |-> r.err]
    /\ UNCHANGED <<source, scan_vars, tc_vars>>

NextInt == ParseInt

SpecInt == InitInt /\ [][NextInt]_vars

---------------------------------------------------------------------------
(* Reference definitions for integer literals: the number a digit string   *)
(* denotes, held as three numbers below 10^9 (the digits 1-9, 10-18 and    *)
(* 19-27 from the right), so that no number exceeds the model checker's    *)
(* 32-bit integers.                                                        *)

RECURSIVE DecimalValue(_)
\* The number a string of at most 9 digits denotes
DecimalValue(ds) ==
    IF ds = <<>> THEN 0
    ELSE 10 * DecimalValue(SubSeq(ds, 1, Len(ds) - 1)) + DigitValue(ds[Len(ds)])

\* <<high, middle, low>> of a string of at most 27 digits
Limbs(ds) ==
    LET n == Len(ds)
        Part(k) == SubSeq(ds, IF n - 9 * k + 1 < 1 THEN 1
                              ELSE n - 9 * k + 1,
                          n - 9 * (k - 1))
    IN  <<DecimalValue(Part(3)), DecimalValue(Part(2)), DecimalValue(Part(1))>>

\* 2^63 - 1 = 9 223372036 854775807
I64MaxLimbs == <<9, 223372036, 854775807>>

LimbsLeq(a, b) ==
    \/ a[1] < b[1]
    \/ a[1] = b[1] /\ a[2] < b[2]
    \/ a[1] = b[1] /\ a[2] = b[2] /\ a[3] <= b[3]

\* The tokens of `print <lexeme>;` as the body of a function declaration
PrintIntTokens(lexeme) ==
    TokensOf([prog |-> [decls |-> <<>>,
                        stmts |-> <<[kind |-> "Print",
                                     expr |-> [kind |-> "Int",
                                               lit |-> [lexeme |-> lexeme,
                                                        value |-> lexeme]]]>>],
              in_fun |-> TRUE])

---------------------------------------------------------------------------
(* C18                                                                     *)

\* C18: parse_int on an Int token whose digits denote a number above
\* 2^63 - 1 returns Err(InvalidIntLiteral) with the token's position and
\* lexeme, and parse_program returns that error for a statement holding
\* the literal; on an Int token whose digits denote a number up to 2^63 - 1
\* it returns an Int node at the token's position whose value is that
\* number.
C18_IntLiteral ==
    (IsIntSource(source) /\ p_result # NotRun) =>
        LET tok == parser.tokens[1]
        IN  IF LimbsLeq(Limbs(tok.lexeme), I64MaxLimbs)
            THEN /\ p_result.st = "ok"
                 /\ p_result.val.kind = "Int"
                 /\ p_result.val.pos = tok.pos
                 /\ Limbs(p_result.val.value) = Limbs(tok.lexeme)
            ELSE /\ p_result.st = "err"
                 /\ p_result.err = InvalidIntLiteral(tok.pos, tok.lexeme)
                 /\ LET w == parse_program(ParserNew(PrintIntTokens(tok.lexeme)))
                    IN  /\ w.st = "err"
                        /\ w.err = InvalidIntLiteral(Pos(1, Len(FunHead) + 2),
                                                     tok.lexeme)

\* parse_int has failed on 9223372036854775808, which is 2^63.
C18_Witness ==
    /\ IsIntSource(source)
    /\ source.lexeme = SubSeq(I64MaxDigits, 1, 18) \o <<"8">>
    /\ p_result # NotRun
    /\ p_result.st = "err"
    /\ p_result.err.kind = "InvalidIntLiteral"


---------------------------------------------------------------------------
(* SpecDriver: CompileManager::typecheck on every text made of at most     *)
(* MaxChunks pieces: get_tokens, then Parser::new and parse_program, then  *)
(* TypeChecker::new and tc_program, each try! returning the first Err.     *)

MaxChunks == 3

\* The pieces: `var x:int;`, `1 `, `@ `, `2;` and `#`
DriverChunks ==
    { <<"v", "a", "r", " ", "x", ":", "i", "n", "t", ";">>,
      <<"1", " ">>,
      <<"@", " ">>,
      <<"2", ";">>,
      <<"#">> }

RECURSIVE Flatten(_)
Flatten(ss) == IF ss = <<>> THEN <<>> ELSE Head(ss) \o Flatten(Tail(ss))

DriverTexts(n) == {Flatten(ss) : ss \in SeqsUpTo(DriverChunks, n)}

InitDriver ==
    /\ \E data \in DriverTexts(MaxChunks) : scanner = ScannerNew(data)
    /\ sc_tokens = <<>>
    /\ sc_status = "scanning"
    /\ sc_error = NoError
    /\ ParseIdle
    /\ TcIdle

\* A variant of DriverParse that also runs after get_tokens returned Err
DriverParse_after_error ==
    /\ sc_status \in {"done", "error"}
    /\ p_result = NotRun
    /\ LET r == parse_program(ParserNew(sc_tokens))
       IN  /\ parser' = r.p
           /\ p_result' = [st |-> r.st, val |-> r.val, err |-> r.err]
    /\ UNCHANGED <<source, scan_vars, tc_vars>>

\* try!(self.get_tokens()) gave the tokens: Parser::new(tokens) and
\* parser.parse_program()
DriverParse ==
    /\ sc_status = "done"
    /\ p_result = NotRun
    /\ LET r == parse_program(ParserNew(sc_tokens))
       IN  /\ parser' = r.p
           /\ p_result' = [st |-> r.st, val |-> r.val, err |-> r.err]
    /\ UNCHANGED <<source, scan_vars, tc_vars>>

\* try!(parser.parse_program()) gave the ast: TypeChecker::new() and the
\* call tc.tc_program(&ast).  The Program parse_program builds holds no
\* statements, so tc_stmts has none to visit.
DriverTypecheck ==
    /\ p_result # NotRun
    /\ p_result.st = "ok"
    /\ tc_pc = "idle"
    /\ program' = [decls |-> p_result.val.decls, stmts |-> <<>>]
    /\ tc' = TypeCheckerNew
    /\ tc_pc' = "decls"
    /\ tc_decl_i' = 0
    /\ UNCHANGED <<tc_todo, tc_cur, tc_error, scan_vars, parse_vars>>

NextDriver ==
    \/ GetTokensPush \/ GetTokensErr \/ GetTokensLoop
    \/ DriverParse
    \/ DriverTypecheck \/ TcDecl \/ TcDeclsDone \/ TcStmtsDone

SpecDriver == InitDriver /\ [][NextDriver]_vars

\* What CompileManager::typecheck returns, once it returns
DriverResult ==
    IF sc_status = "error" THEN [ok |-> FALSE, err |-> sc_error]
    ELSE IF p_result # NotRun /\ p_result.st = "err"
         THEN [ok |-> FALSE, err |-> p_result.err]
    ELSE IF tc_pc = "error" THEN [ok |-> FALSE, err |-> tc_error]
    ELSE IF tc_pc = "ok" THEN [ok |-> TRUE, err |-> NoError]
    ELSE [ok |-> FALSE, err |-> NoError]

DriverReturned ==
    \/ sc_status = "error"
    \/ p_result # NotRun /\ p_result.st # "ok"
    \/ tc_pc \in {"error", "ok"}

---------------------------------------------------------------------------
(* C19                                                                     *)

\* The parser has run only on the whole token sequence of a scan that ended
\* with Eof and without error, the type checker has started only on the
\* Program of a parse that returned Ok, and a stage that failed is the only
\* one with an error, which is the result.
C19_Order ==
    /\ p_result # NotRun =>
          /\ sc_status = "done" /\ sc_error = NoError
          /\ sc_tokens # <<>> /\ sc_tokens[Len(sc_tokens)].typ = "Eof"
          /\ parser.tokens = sc_tokens
    /\ tc_pc # "idle" =>
          /\ p_result # NotRun /\ p_result.st = "ok"
          /\ program.decls = p_result.val.decls
    /\ sc_status = "error" =>
          /\ sc_error.kind = "IllegalCharacter"
          /\ p_result = NotRun /\ tc_pc = "idle" /\ tc_error = NoError
          /\ DriverResult = [ok |-> FALSE, err |-> sc_error]
    /\ (p_result # NotRun /\ p_result.st = "err") =>
          /\ tc_pc = "idle" /\ tc_error = NoError
          /\ DriverResult = [ok |-> FALSE, err |-> p_result.err]
    /\ tc_pc = "error" =>
          /\ tc_error # NoError
          /\ DriverResult = [ok |-> FALSE, err |-> tc_error]
    /\ scanner.data = <<"1", " ", "@", " ", "2", ";">> =>
          /\ p_result = NotRun /\ tc_pc = "idle"
          /\ sc_status \in {"scanning", "error"}
          /\ sc_status = "error" => sc_error = IllegalCharacter(Pos(1, 3), "@")

\* C19: the stages of the driver run strictly in order and a failure is
\* terminal: C19_Order holds in every state, and once the driver has
\* returned, with the first error or with Ok, no stage takes another step.
C19_Pipeline == []C19_Order /\ [][~DriverReturned]_vars

\* The driver has returned the scanner's error for `1 @ 2;`; no parser was
\* started.
C19_Witness ==
    /\ scanner.data = <<"1", " ", "@", " ", "2", ";">>
    /\ sc_status = "error"
    /\ DriverResult = [ok |-> FALSE, err |-> IllegalCharacter(Pos(1, 3), "@")]
    /\ Len(sc_tokens) = 1
    /\ p_result = NotRun
    /\ tc_pc = "idle"


---------------------------------------------------------------------------
(* C20                                                                     *)

RECURSIVE CommentToEnd(_, _)
\* From index i the text holds only whitespace and comments, the last of
\* which runs to the end of the text with no newline after it.
CommentToEnd(data, i) ==
    IF i > Len(data) THEN FALSE
    ELSE IF is_whitespace(data[i]) THEN CommentToEnd(data, i + 1)
    ELSE IF data[i] = "#"
         THEN IF \E j \in i..Len(data) : data[j] = "\n"
              THEN CommentToEnd(data,
                      CHOOSE j \in i..Len(data) :
                          data[j] = "\n" /\ \A k \in i..(j - 1) : data[k] # "\n")
              ELSE TRUE
    ELSE FALSE

\* C20: every call of next_token returns, so get_tokens never stays in a
\* call; when the rest of the text ends in a comment with no newline after
\* it, the call returns Ok with the Eof token.
C20_Terminates ==
    /\ sc_status # "loop"
    /\ sc_status = "scanning" =>
          LET r == next_token(scanner)
          IN  /\ r.ends
              /\ CommentToEnd(scanner.data, scanner.index + 1) =>
                    r.ok /\ r.tok.typ = "Eof"


---------------------------------------------------------------------------
(* SpecParseAny: Parser::new on the tokens of every source of at most      *)
(* MaxAnySize nodes in which one token is replaced by a token of any other *)
(* kind, or after which the text is cut off, then Parser::parse_program.   *)
(* Every token sequence ends with its only Eof token.                      *)

MaxAnySize == 2

\* What happens at the token of index bad: a token of another kind stands
\* there, or the text ends before it ("Cut").
Damages == (TokenKinds \ {"Eof"}) \cup {"Cut"}

AnyTokens(src) ==
    LET t == TokensOf([prog |-> src.prog, in_fun |-> src.in_fun])
    IN  IF src.damage = "Cut"
        THEN Append(SubSeq(t, 1, src.bad - 1),
                    [typ |-> "Eof", lexeme |-> <<>>, has_lexeme |-> FALSE,
                     pos |-> t[src.bad].pos])
        ELSE WithKindAt(t, src.bad, src.damage)

InitParseAny ==
    /\ \E prog \in ProgramShapesUpTo(MaxAnySize), in_fun \in BOOLEAN :
          LET n == Len(TokensOf([prog |-> prog, in_fun |-> in_fun]))
          IN  \E bad \in 1..(n - 1), damage \in Damages :
                 /\ source = [prog |-> prog, in_fun |-> in_fun, bad |-> bad,
                              damage |-> damage]
                 /\ parser = ParserNew(AnyTokens(source))
    /\ p_result = NotRun
    /\ ScanIdle
    /\ TcIdle

SpecParseAny == InitParseAny /\ [][NextParse]_vars

---------------------------------------------------------------------------
(* C21                                                                     *)

\* The last token is the only Eof token
EndsWithOnlyEof(tokens) ==
    /\ tokens # <<>>
    /\ \A i \in 1..Len(tokens) : (tokens[i].typ = "Eof") <=> (i = Len(tokens))

\* C21: on a token sequence whose last element is its only Eof token,
\* parse_program reads no token outside the sequence (it does not panic on
\* an index out of bounds), whether it returns Ok or Err: the cursor ends
\* on a token of the sequence, the Eof token at the furthest, unless the
\* call returned Ok, and then it is just past the Eof token, which the
\* final eat(Eof) consumed.
C21_CursorInBounds ==
    /\ EndsWithOnlyEof(parser.tokens) \/ parser.tokens = <<>>
    /\ p_result # NotRun =>
          /\ p_result.st \in {"ok", "err"}
          /\ parser.index <= Len(parser.tokens)
          /\ (parser.index = Len(parser.tokens)) <=> (p_result.st = "ok")
          /\ p_result.st = "ok" =>
                parser.tokens[parser.index].typ = "Eof"

\* parse_program has failed on the Eof token of a text cut off inside a
\* function declaration; the cursor is on that token.
C21_Witness ==
    /\ p_result # NotRun
    /\ "damage" \in DOMAIN source /\ source.damage = "Cut" /\ source.in_fun
    /\ p_result.st = "err"
    /\ p_result.err.kind = "UnexpectedToken"
    /\ p_result.err.token.typ = "Eof"
    /\ parser.index = Len(parser.tokens) - 1


---------------------------------------------------------------------------
(* C22                                                                     *)

\* The symbol table of declarations with distinct names
RefSymtable(decls) ==
    [id \in {decls[i].id : i \in 1..Len(decls)} |->
        decls[CHOOSE i \in 1..Len(decls) : decls[i].id = id].ty]

\* The declarations that repeat the name of an earlier one
Redeclared(decls) ==
    {k \in 1..Len(decls) : \E i \in 1..(k - 1) : decls[i].id = decls[k].id}

\* The error of one node of the walk, the nodes before it having none:
\* an unbound identifier, `read` or assignment target, a Float assigned to
\* an Int variable, a condition that is not Int.
NodeError(symtable, node) ==
    CASE node.kind \in {"Id", "Read"} ->
            IF node.id \in DOMAIN symtable THEN NoError
            ELSE UndeclaredVariable(node.pos, node.id)
      [] node.kind = "Assign" ->
            IF RefType(symtable, node.expr) = "Unbound" THEN NoError
            ELSE IF node.id \notin DOMAIN symtable
                 THEN UndeclaredVariable(node.pos, node.id)
            ELSE IF symtable[node.id] = "Int" /\ RefType(symtable, node.expr) = "Float"
                 THEN UnexpectedType(node.pos, "Int", "Float")
            ELSE NoError
      [] node.kind \in {"If", "While"} ->
            IF RefType(symtable, node.expr) \in {"Unbound", "Int"} THEN NoError
            ELSE UnexpectedType(node.pos, "Int", RefType(symtable, node.expr))
      [] OTHER -> NoError

\* The error of the first declaration or, when none has one, of the first
\* node of the statements' walk that has one; NoError when there is none.
FirstError(prog) ==
    LET dups == Redeclared(prog.decls)
        walk == WalkOf(prog.stmts)
        symtable == RefSymtable(prog.decls)
        bad == {i \in 1..Len(walk) : NodeError(symtable, walk[i]) # NoError}
    IN  IF dups # {}
        THEN LET k == CHOOSE k \in dups : \A j \in dups : k <= j
             IN  DuplicateVariable(prog.decls[k].pos, prog.decls[k].id)
        ELSE IF bad # {}
        THEN NodeError(symtable, walk[CHOOSE i \in bad : \A j \in bad : i <= j])
        ELSE NoError

\* When tc_program has returned, it returned Err with the first error of
\* the walk, or Ok when the walk has none.
C22_Reported ==
    /\ tc_pc = "error" => (tc_error # NoError /\ tc_error = FirstError(program))
    /\ tc_pc = "ok" => (tc_error = NoError /\ FirstError(program) = NoError)
    /\ tc_pc \in {"decls", "stmts"} => tc_error = NoError

\* C22: the one error tc_program reports is the first in its walk order
\* (declarations in order, then statements in order, the left operand of a
\* Binop before the right one, the expression of an assignment before its
\* target), and after it tc_program takes no further step.
C22_FirstError == []C22_Reported /\ [][tc_pc # "error"]_vars

\* `y = z;` with neither name declared was refused for z at the position
\* of z.
C22_Witness ==
    /\ tc_pc = "error"
    /\ tc_cur.kind = "Assign" /\ tc_cur.expr.kind = "Id"
    /\ tc_cur.id # tc_cur.expr.id
    /\ tc_cur.id \notin DOMAIN tc.symtable
    /\ tc_cur.expr.id \notin DOMAIN tc.symtable
    /\ tc_error = UndeclaredVariable(tc_cur.expr.pos, tc_cur.expr.id)
    /\ tc_cur.expr.pos # tc_cur.pos

=============================================================================
